---------------------------- MODULE Spec2Model ----------------------------
(***************************************************************************)
(* A model of go-restricted-runner (package runner): the Runner backends   *)
(* Exec, Firejail, SandboxExec, Docker and Landrun, their batch (Run) and  *)
(* interactive (RunWithPipes) execution modes, and the resources they own: *)
(* temp files, pipes, OS processes, containers and the Landlock domain of  *)
(* the hosting process.                                                    *)
(*                                                                         *)
(* One behaviour is one hosting process: a host is chosen, one Runner is   *)
(* constructed, and execution calls are made on it.                        *)
(***************************************************************************)
EXTENDS Integers, Sequences, FiniteSets, TLC

\* ------------------------------------------------------------------ bounds
\* Execution calls (Run / RunWithPipes) made in one behaviour.
MaxCalls == 2
\* Invocations of one handle's completion function.
MaxWaits == 2
\* Ticks of the host clock (time.Now().UnixNano()).
MaxClock == 2
MaxOptions == 1
MaxLayers == 3
MaxKeys == 2

\* ------------------------------------------------------------------ values
None == "none"

\* A path is a sequence of components; a template path has the placeholder
\* component Tpl ("{{.workdir}}").
Tpl   == "{{.workdir}}"
PDev  == <<"dev">>
PTmp  == <<"tmp">>
PTmpA == <<"tmp", "a">>
PData == <<"data">>
PUsr  == <<"usr">>
PSrv  == <<"srv">>
PTpl  == <<Tpl>>

\* p lies under directory d (d itself included): d is a prefix of p.
Under(p, d) ==
    /\ Len(d) <= Len(p)
    /\ \A i \in 1..Len(d) : p[i] = d[i]

Range(s) == {s[i] : i \in DOMAIN s}

IsPrefix(s, t) ==
    /\ Len(s) <= Len(t)
    /\ \A i \in 1..Len(s) : s[i] = t[i]

\* ------------------------------------------------------------------ errors
\* An error is its chain of messages, outermost first (fmt.Errorf("...: %w")
\* wraps, errors.New starts a new chain); nil is the empty chain.
Nil == <<>>
\* One link of an error chain: a fixed message, or the text of an error made
\* from captured output.
Msg(m) == [msg |-> m, text |-> <<>>]
ErrCanceled         == <<Msg("context canceled")>>
ErrDeadlineExceeded == <<Msg("context deadline exceeded")>>
ErrKilled           == <<Msg("signal: killed")>>
ErrExitStatus       == <<Msg("exit status 1")>>
ErrNotFound         == <<Msg("executable file not found")>>
\* fmt.Errorf("msg: %w", err)
Errorf(m, err) == <<Msg(m)>> \o err
\* errors.New(text) for a captured text
ErrorsNew(text) == <<[msg |-> "", text |-> text]>>
\* errors.Is
ErrorsIs(err, target) == \E i \in 1..Len(err) : <<err[i]>> = target

\* ------------------------------------------------------------------ contexts
CtxStates == {"live", "canceled", "deadline"}
\* ctx.Err()
CtxErr(st) ==
    CASE st = "canceled" -> ErrCanceled
      [] st = "deadline" -> ErrDeadlineExceeded
      [] OTHER -> Nil


\* ------------------------------------------------------------------ templates
\* Substitution contexts (params): a map with at most the key "workdir".
NoParams == <<>>
WorkdirValues == {PTmpA, PData}
ParamsSet == {NoParams} \cup {[workdir |-> w] : w \in WorkdirValues}

\* common.ProcessTemplate on one entry: the placeholder is replaced by the
\* value of its key; a missing key renders as the zero value (nothing).
RECURSIVE ProcessTemplate(_, _)
ProcessTemplate(entry, params) ==
    IF entry = <<>> THEN <<>>
    ELSE LET h == Head(entry)
             t == ProcessTemplate(Tail(entry), params)
         IN  IF h = Tpl
             THEN (IF "workdir" \in DOMAIN params THEN params.workdir ELSE <<>>) \o t
             ELSE <<h>> \o t

\* common.ProcessTemplateListFlexible: every entry processed, in order.
ProcessTemplateListFlexible(list, params) ==
    [i \in DOMAIN list |-> ProcessTemplate(list[i], params)]

\* ------------------------------------------------------------------ Landlock
\* Access rights of go-landlock's rule constructors.  RODirs grants execute
\* besides read; RWDirs adds the write rights to those of RODirs.
AccessFSRead  == {"execute", "read_file", "read_dir"}
AccessFSWrite == {"write_file", "make_reg", "remove_file"}
AccessFSReadWrite == AccessFSRead \cup AccessFSWrite
AccessFSAll == AccessFSReadWrite

RODirs(paths) == [kind |-> "fs", ctor |-> "RODirs", access |-> AccessFSRead, paths |-> paths]
RWDirs(paths) == [kind |-> "fs", ctor |-> "RWDirs", access |-> AccessFSReadWrite, paths |-> paths]
BindTCP(port)    == [kind |-> "bind", port |-> port]
ConnectTCP(port) == [kind |-> "connect", port |-> port]

IsNetRule(rule) == rule.kind \in {"bind", "connect"}

\* landlock.V1, V4, V6 and Config.BestEffort().
LandlockV1 == [version |-> 1, bestEffort |-> FALSE]
LandlockV4 == [version |-> 4, bestEffort |-> FALSE]
LandlockV6 == [version |-> 6, bestEffort |-> FALSE]
BestEffort(config) == [config EXCEPT !.bestEffort = TRUE]
\* The first ABI version whose configs handle network access.
NetABI(config) == config.version >= LandlockV4.version

Min(a, b) == IF a <= b THEN a ELSE b

\* The ruleset one successful Restrict call enforces: one layer of the
\* process's Landlock domain.  A layer of ABI >= 4 handles (and so denies by
\* default) TCP bind and connect; every layer handles filesystem access.
Layer(version, rules) ==
    LET rs == Range(rules) IN
    [version    |-> version,
     handledNet |-> version >= LandlockV4.version,
     fs      |-> UNION {{[path |-> r.paths[i], access |-> r.access] : i \in DOMAIN r.paths}
                        : r \in {x \in rs : x.kind = "fs"}},
     bind    |-> IF version >= LandlockV4.version
                 THEN {r.port : r \in {x \in rs : x.kind = "bind"}} ELSE {},
     connect |-> IF version >= LandlockV4.version
                 THEN {r.port : r \in {x \in rs : x.kind = "connect"}} ELSE {}]

\* A rule path the kernel cannot open: the empty string names no file.
PathMissing(rules) ==
    \E r \in Range(rules) : r.kind = "fs" /\ \E i \in DOMAIN r.paths : r.paths[i] = <<>>

\* A Restrict that would replace the domain in force by the new ruleset
\* instead of stacking the ruleset on it.
Restrict_Replacing(config, rules, abi, ls) ==
    LET version == IF config.bestEffort THEN Min(config.version, abi) ELSE config.version
    IN  IF (\E r \in Range(rules) : IsNetRule(r) /\ ~NetABI(config)) \/ abi < version
          THEN [err |-> <<Msg("missing kernel Landlock support")>>, layers |-> ls]
        ELSE IF version = 0 \/ PathMissing(rules) THEN [err |-> Nil, layers |-> ls]
        ELSE [err |-> Nil, layers |-> <<Layer(version, rules)>>]

\* A Restrict that would not lower a best-effort config to the kernel's ABI.
Restrict_NoDowngrade(config, rules, abi, ls) ==
    IF \E r \in Range(rules) : IsNetRule(r) /\ ~NetABI(config)
      THEN [err |-> <<Msg("incompatible rule")>>, layers |-> ls]
    ELSE IF abi < config.version
      THEN [err |-> <<Msg("missing kernel Landlock support")>>, layers |-> ls]
    ELSE IF PathMissing(rules)
      THEN [err |-> <<Msg("populating ruleset"), Msg("no such file or directory")>>, layers |-> ls]
    ELSE [err |-> Nil, layers |-> Append(ls, Layer(config.version, rules))]

\* config.Restrict(rules...) on a host whose kernel offers Landlock ABI abi
\* (0: none), for a process whose domain is the layer sequence ls.  Returns the
\* error and the domain afterwards.  A network rule is incompatible with a
\* config below V4; best effort lowers the config to the kernel's ABI (to
\* nothing at ABI 0) and drops what that ABI does not handle; without best
\* effort a kernel below the config's version is an error.
Restrict(config, rules, abi, ls) ==
    LET version == IF config.bestEffort THEN Min(config.version, abi) ELSE config.version IN
    IF \E r \in Range(rules) : IsNetRule(r) /\ ~NetABI(config)
      THEN [err |-> <<Msg("incompatible rule")>>, layers |-> ls]
    ELSE IF abi < version
      THEN [err |-> <<Msg("missing kernel Landlock support")>>, layers |-> ls]
    ELSE IF version = 0
      THEN [err |-> Nil, layers |-> ls]
    ELSE IF PathMissing(rules)
      THEN [err |-> <<Msg("populating ruleset"), Msg("no such file or directory")>>, layers |-> ls]
    ELSE [err |-> Nil, layers |-> Append(ls, Layer(version, rules))]

\* What the process (and every child it starts from now on) may still do: an
\* access is allowed when every layer of the domain grants it.
AllowedFS(ls, p, right) ==
    \A k \in DOMAIN ls :
        \E g \in ls[k].fs : Under(p, g.path) /\ right \in g.access
AllowedBind(ls, port) ==
    \A k \in DOMAIN ls : ls[k].handledNet => port \in ls[k].bind
AllowedConnect(ls, port) ==
    \A k \in DOMAIN ls : ls[k].handledNet => port \in ls[k].connect

\* ------------------------------------------------------------------ text
\* Captured output is a sequence of characters.
IsSpace(c) == c \in {" ", "\n", "\t"}

RECURSIVE TrimLeft(_)
TrimLeft(s) == IF s # <<>> /\ IsSpace(Head(s)) THEN TrimLeft(Tail(s)) ELSE s
RECURSIVE TrimRight(_)
TrimRight(s) ==
    IF s # <<>> /\ IsSpace(s[Len(s)]) THEN TrimRight(SubSeq(s, 1, Len(s) - 1)) ELSE s
\* A trim that would leave the trailing whitespace in place.
TrimSpace_LeftOnly(s) == TrimLeft(s)

\* strings.TrimSpace
TrimSpace(s) == TrimRight(TrimLeft(s))

\* ------------------------------------------------------------------ processes
\* What a command does once started: its exit code and what it writes.
\* start = FALSE: the executable cannot be started (not found).
ProcBehaviours ==
    { [start |-> FALSE, exit |-> 1, stdout |-> <<>>, stderr |-> <<>>],
      [start |-> TRUE,  exit |-> 0, stdout |-> <<" ", "h", "\n">>, stderr |-> <<>>],
      [start |-> TRUE,  exit |-> 0, stdout |-> <<"h">>, stderr |-> <<"w", "\n">>],
      [start |-> TRUE,  exit |-> 1, stdout |-> <<>>, stderr |-> <<"e", "\n">>],
      [start |-> TRUE,  exit |-> 1, stdout |-> <<>>, stderr |-> <<>>] }

\* When the call's context fires while its process runs: never, or as an
\* explicit cancel or a deadline, with the kill reaching the running process
\* ("kill") or a process that had just exited by itself ("late").
\* "early" is a context that fires after the call's entry check and before
\* the process is started.
Fires == { [how |-> "live", hit |-> "none"],
           [how |-> "canceled", hit |-> "early"], [how |-> "deadline", hit |-> "early"],
           [how |-> "canceled", hit |-> "kill"], [how |-> "deadline", hit |-> "kill"],
           [how |-> "canceled", hit |-> "late"], [how |-> "deadline", hit |-> "late"] }

\* The executions of a batch command: what it does and what its context does
\* meanwhile.  A context can only reach a command that starts; a killed
\* command has not exited successfully.
ExecutionsOf(behaviours) ==
    { x \in [b : behaviours, fire : Fires] :
        CASE x.fire.hit = "none"  -> TRUE
          [] x.fire.hit = "early" -> x.b.start /\ x.b.exit = 0 /\ x.b.stderr = <<>>
          [] x.fire.hit = "kill"  -> x.b.start /\ x.b.exit = 1
          [] OTHER                -> x.b.start /\ x.b.stderr = <<>> }

Executions == ExecutionsOf(ProcBehaviours)

\* The executions drawn where the execution is noted next to the result:
\* also a command that fails after writing to stdout and only a line end to
\* stderr.
BatchExecutions ==
    ExecutionsOf(ProcBehaviours \cup
                 {[start |-> TRUE, exit |-> 1, stdout |-> <<"h">>, stderr |-> <<"\n">>]})

\* The shell and every command live under /usr: a process can be started only
\* while the Landlock domain still allows executing files there.
CanExec(ls) == AllowedFS(ls, <<"usr", "bin", "sh">>, "execute")

\* exec.Cmd.Wait of a process started with exec.CommandContext: a process
\* that did not exit successfully yields its own *exec.ExitError (a killed
\* one "signal: killed"); the context's error is reported only when the
\* process itself exited successfully after the context had fired.
CmdWait(proc, ctxState) ==
    CASE proc = "killed"  -> ErrKilled
      [] proc = "exited1" -> ErrExitStatus
      [] OTHER            -> CtxErr(ctxState)

\* exec.Cmd.Run with stdout and stderr captured in buffers: Start, then Wait.
\* b is the command's behaviour, fire what the context does meanwhile.  Start
\* returns the context's error when the context is already done.
CmdRun(b, fire, canExec) ==
    IF fire.hit = "early"
      THEN [started |-> FALSE, err |-> CtxErr(fire.how), stdout |-> <<>>, stderr |-> <<>>]
    ELSE IF ~(b.start /\ canExec)
      THEN [started |-> FALSE, err |-> ErrNotFound, stdout |-> <<>>, stderr |-> <<>>]
    ELSE IF fire.hit = "kill"
      THEN [started |-> TRUE, err |-> CmdWait("killed", fire.how),
            stdout |-> <<>>, stderr |-> b.stderr]
    ELSE [started |-> TRUE,
          err |-> CmdWait(IF b.exit = 0 THEN "exited0" ELSE "exited1", fire.how),
          stdout |-> b.stdout, stderr |-> b.stderr]

\* A tail that would hand back the error of execCmd.Run whatever the command
\* wrote to stderr.
RunResult_RawError(res) ==
    IF res.err # Nil
      THEN [out |-> <<>>, err |-> res.err]
      ELSE [out |-> TrimSpace(res.stdout), err |-> Nil]

\* The tail every batch Run shares: on an error of execCmd.Run the trimmed
\* stderr text, when there is any, becomes the error; otherwise the trimmed
\* stdout is the output.
RunResult(res) ==
    IF res.err # Nil
      THEN [out |-> <<>>,
            err |-> IF Len(res.stderr) > 0 THEN ErrorsNew(TrimSpace(res.stderr)) ELSE res.err]
      ELSE [out |-> TrimSpace(res.stdout), err |-> Nil]

\* ------------------------------------------------------------------ Landrun
AllLandrunOptions ==
    [AllowReadFolders      : {<<>>, <<PTpl>>},
     AllowReadExecFolders  : {<<>>, <<PUsr>>},
     AllowWriteFolders     : {<<>>, <<PData>>},
     AllowWriteExecFolders : {<<>>, <<PSrv>>},
     AllowBindTCP          : {<<>>, <<8080>>},
     AllowConnectTCP       : {<<>>, <<443>>},
     AllowNetworking        : BOOLEAN,
     UnrestrictedFilesystem : BOOLEAN,
     BestEffort             : BOOLEAN]

\* The zero value of LandrunOptions.
ZeroLandrunOptions ==
    [AllowReadFolders |-> <<>>, AllowReadExecFolders |-> <<>>, AllowWriteFolders |-> <<>>,
     AllowWriteExecFolders |-> <<>>, AllowBindTCP |-> <<>>, AllowConnectTCP |-> <<>>,
     AllowNetworking |-> FALSE, UnrestrictedFilesystem |-> FALSE, BestEffort |-> FALSE]

\* The options explored: those that set at most MaxOptions fields, with and
\* without best effort.
LandrunOptionsSet ==
    { o \in AllLandrunOptions :
        Cardinality({f \in DOMAIN o \ {"BestEffort"} : o[f] # ZeroLandrunOptions[f]})
          <= MaxOptions }

\* A compilation that would add the filesystem rules whatever
\* UnrestrictedFilesystem says.
buildLandlockRules_AlwaysFilesystem(options, params) ==
    LET tpl(list) == IF Len(list) > 0 THEN ProcessTemplateListFlexible(list, params) ELSE list
        allowReadFolders      == tpl(options.AllowReadFolders)
        allowReadExecFolders  == tpl(options.AllowReadExecFolders)
        allowWriteFolders     == tpl(options.AllowWriteFolders)
        allowWriteExecFolders == tpl(options.AllowWriteExecFolders)
        fsRules ==
            <<RWDirs(<<PDev, PTmp>>)>>
            \o (IF Len(allowReadFolders) > 0 THEN <<RODirs(allowReadFolders)>> ELSE <<>>)
            \o (IF Len(allowReadExecFolders) > 0 THEN <<RODirs(allowReadExecFolders)>> ELSE <<>>)
            \o (IF Len(allowWriteFolders) > 0 THEN <<RWDirs(allowWriteFolders)>> ELSE <<>>)
            \o (IF Len(allowWriteExecFolders) > 0 THEN <<RWDirs(allowWriteExecFolders)>> ELSE <<>>)
        netRules ==
            IF ~options.AllowNetworking
            THEN [i \in DOMAIN options.AllowBindTCP |-> BindTCP(options.AllowBindTCP[i])]
                 \o [i \in DOMAIN options.AllowConnectTCP |-> ConnectTCP(options.AllowConnectTCP[i])]
            ELSE <<>>
    IN  fsRules \o netRules

\* Landrun.buildLandlockRules
buildLandlockRules(options, params) ==
    LET tpl(list) == IF Len(list) > 0 THEN ProcessTemplateListFlexible(list, params) ELSE list
        allowReadFolders      == tpl(options.AllowReadFolders)
        allowReadExecFolders  == tpl(options.AllowReadExecFolders)
        allowWriteFolders     == tpl(options.AllowWriteFolders)
        allowWriteExecFolders == tpl(options.AllowWriteExecFolders)
        fsRules ==
            IF ~options.UnrestrictedFilesystem
            THEN <<RWDirs(<<PDev, PTmp>>)>>
                 \o (IF Len(allowReadFolders) > 0 THEN <<RODirs(allowReadFolders)>> ELSE <<>>)
                 \o (IF Len(allowReadExecFolders) > 0 THEN <<RODirs(allowReadExecFolders)>> ELSE <<>>)
                 \o (IF Len(allowWriteFolders) > 0 THEN <<RWDirs(allowWriteFolders)>> ELSE <<>>)
                 \o (IF Len(allowWriteExecFolders) > 0 THEN <<RWDirs(allowWriteExecFolders)>> ELSE <<>>)
            ELSE <<>>
        netRules ==
            IF ~options.AllowNetworking
            THEN [i \in DOMAIN options.AllowBindTCP |-> BindTCP(options.AllowBindTCP[i])]
                 \o [i \in DOMAIN options.AllowConnectTCP |-> ConnectTCP(options.AllowConnectTCP[i])]
            ELSE <<>>
    IN  fsRules \o netRules

\* A selection that would take the filesystem-only version whatever is
\* requested.
selectLandlockABI_FilesystemOnly(options) ==
    IF options.BestEffort THEN BestEffort(LandlockV1) ELSE LandlockV1

\* Landrun.selectLandlockABI
selectLandlockABI(options) ==
    LET needsNetwork == ~options.AllowNetworking
                        /\ (Len(options.AllowBindTCP) > 0 \/ Len(options.AllowConnectTCP) > 0)
        config == IF needsNetwork THEN LandlockV4 ELSE LandlockV1
    IN  IF options.BestEffort THEN BestEffort(config) ELSE config

\* The config of the earlier revision of Run and RunWithPipes kept in
\* runner.go: always landlock.V6.
selectV6(options) ==
    IF options.BestEffort THEN BestEffort(LandlockV6) ELSE LandlockV6

\* The config a Landrun of revision rev applies its rules with.
LandrunConfig(rev, options) ==
    IF rev = "landrun.go" THEN selectLandlockABI(options) ELSE selectV6(options)

\* An application step that would call Restrict whatever the rule list holds.
ApplyRestrictions_Always(rev, options, rules, abi, ls) ==
    LET config == LandrunConfig(rev, options)
        res == Restrict(config, rules, abi, ls)
    IN  [invoked |-> TRUE, config |-> config, layers |-> res.layers,
         err |-> IF res.err # Nil
                 THEN Errorf("failed to apply landlock restrictions", res.err)
                 ELSE Nil]

\* The application step of Landrun.Run and Landrun.RunWithPipes: restrictions
\* are applied only when there are rules to enforce.
ApplyRestrictions(rev, options, rules, abi, ls) ==
    IF Len(rules) > 0
    THEN LET config == LandrunConfig(rev, options)
             res == Restrict(config, rules, abi, ls)
         IN  [invoked |-> TRUE, config |-> config, layers |-> res.layers,
              err |-> IF res.err # Nil
                      THEN Errorf("failed to apply landlock restrictions", res.err)
                      ELSE Nil]
    ELSE [invoked |-> FALSE, config |-> LandlockV1, layers |-> ls, err |-> Nil]

\* ------------------------------------------------------------------ state
VARIABLES
    host,          \* the machine: operating system and Landlock ABI of its kernel
    runner,        \* the Runner the process holds: type, revision, options
    layers,        \* Landlock layers in force on the process, oldest first
    tempFiles,     \* files present in the temp directory
    pipes,         \* pipe ends the process holds open
    containers,    \* names of the containers that exist
    handles,       \* interactive calls that returned a handle, by call number
    nCalls,        \* number of Run / RunWithPipes calls made
    now,           \* the clock
    cleanupFaults, \* whether removals and teardowns can fail on this machine
    inflight,      \* calls that goroutines are in the middle of, step by step
    last           \* what the latest operation did and returned

vars == <<host, runner, layers, tempFiles, pipes, containers, handles, nCalls,
          now, cleanupFaults, inflight, last>>

\* The Landlock ABI of a machine's kernel: none (0), filesystem rules only
\* (1), or filesystem and network rules (6); other systems have none.
KernelABIs(goos) == IF goos = "linux" THEN {0, 1, 6} ELSE {0}

\* Only a Landrun runner reads the kernel's Landlock ABI, so the ABI of the
\* machine is drawn when that runner is set up; -1 stands for an ABI that
\* nothing has read.
Hosts == { [goos |-> "darwin", kernelABI |-> -1],
           [goos |-> "linux",  kernelABI |-> -1] }

\* given: the options the Runner was constructed with, kept for reference.
NoRunner == [type |-> "none", rev |-> "", options |-> <<>>, given |-> <<>>]

\* The execution recorded for an operation that did not get to execCmd.Run.
NoExecution == [b |-> [start |-> TRUE, exit |-> 0, stdout |-> <<>>, stderr |-> <<>>],
                fire |-> [how |-> "live", hit |-> "none"]]

\* executed: the operation called execCmd.Run; x: on which execution; args:
\* the docker command line it built; type and generic: the backend and the
\* generic options a constructor was called with.
NoOp == [op |-> "none", call |-> 0, ctx |-> "live", err |-> Nil, out |-> <<>>,
         created |-> {}, started |-> FALSE, invoked |-> FALSE, rules |-> <<>>,
         config |-> LandlockV1, failAt |-> "none", params |-> <<>>,
         executed |-> FALSE, x |-> NoExecution, args |-> <<>>,
         type |-> "", generic |-> <<>>]

\* The three parent-side pipe ends of interactive call id.
PipeEnds(id) == { [call |-> id, end |-> e] : e \in {"stdin", "stdout", "stderr"} }

\* The handle of an interactive call: its context, its process, how often its
\* completion function has returned, and the temp files and containers the
\* completion function is to remove.
NewHandle(backend, files, names) ==
    [backend |-> backend, ctx |-> "live", proc |-> "running", waits |-> 0,
     files |-> files, containers |-> names]

\* The goroutines that call the Runner at the same time.
Goroutines == {1, 2}

\* A goroutine that is in no call: pc is its position, params the
\* substitution context of its call, field the list it works on, local the
\* list value it has read, artifact the profile text it rendered.
IdleCall == [pc |-> "idle", params |-> <<>>, field |-> 0, local |-> <<>>,
             artifact |-> [custom |-> "", network |-> FALSE,
                           readFolders |-> <<>>, writeFolders |-> <<>>,
                           readFiles |-> <<>>, writeFiles |-> <<>>]]

Init ==
    /\ host \in Hosts
    /\ runner = NoRunner
    /\ layers = <<>>
    /\ tempFiles = {}
    /\ pipes = {}
    /\ containers = {}
    /\ handles = <<>>
    /\ nCalls = 0
    /\ now = 0
    /\ cleanupFaults = FALSE
    /\ inflight = [g \in Goroutines |-> IdleCall]
    /\ last = NoOp

\* ------------------------------------------------------------------ Landrun actions
LandrunRevs == {"landrun.go", "runner.go"}

\* NewLandrun: the options are parsed and stored.
NewLandrun(rev, options, abi) ==
    /\ runner = NoRunner
    /\ runner' = [type |-> "landrun", rev |-> rev, options |-> options,
                  given |-> options]
    /\ host' = [host EXCEPT !.kernelABI = abi]
    /\ last' = [NoOp EXCEPT !.op = "NewLandrun"]
    /\ UNCHANGED <<layers, tempFiles, pipes, containers, handles, nCalls,
                   now, cleanupFaults, inflight>>

\* Landrun.CheckImplicitRequirements as in landrun.go: a stat of the Landlock
\* securityfs directory; present is what the stat finds.
Landrun_CheckImplicitRequirements(present) ==
    /\ runner.type = "landrun" /\ runner.rev = "landrun.go"
    /\ last' = [NoOp EXCEPT !.op = "CheckImplicitRequirements",
                  !.err = IF host.goos # "linux"
                          THEN <<Msg("landrun runner requires Linux")>>
                          ELSE IF ~present
                          THEN Errorf("landlock not available on this kernel",
                                      <<Msg("no such file or directory")>>)
                          ELSE Nil]
    /\ UNCHANGED <<host, runner, layers, tempFiles, pipes, containers, handles,
                   nCalls, now, cleanupFaults, inflight>>

\* Landrun.CheckImplicitRequirements as in runner.go: the probe calls
\* landlock.V1.BestEffort().RestrictPaths() with no rule.
Landrun_CheckImplicitRequirements_RestrictPaths ==
    /\ runner.type = "landrun" /\ runner.rev = "runner.go"
    /\ Len(layers) < MaxLayers
    /\ LET res == IF host.goos # "linux"
                  THEN [err |-> <<Msg("landrun runner requires Linux")>>, layers |-> layers]
                  ELSE Restrict(BestEffort(LandlockV1), <<>>, host.kernelABI, layers)
       IN  /\ layers' = res.layers
           /\ last' = [NoOp EXCEPT !.op = "CheckImplicitRequirements",
                         !.invoked = (host.goos = "linux"),
                         !.err = IF host.goos = "linux" /\ res.err # Nil
                                 THEN Errorf("landlock not available on this kernel", res.err)
                                 ELSE res.err]
    /\ UNCHANGED <<host, runner, tempFiles, pipes, containers, handles, nCalls,
                   now, cleanupFaults, inflight>>

\* Landrun.Run.  observed: whether the execution drawn (b, fire) is noted in
\* last.x next to the result.
Landrun_Run(ctxAtEntry, params, b, fire, observed) ==
    /\ runner.type = "landrun"
    /\ nCalls < MaxCalls
    /\ nCalls' = nCalls + 1
    /\ LET rules == buildLandlockRules(runner.options, params)
           ap    == ApplyRestrictions(runner.rev, runner.options, rules, host.kernelABI, layers)
           res   == CmdRun(b, fire, CanExec(ap.layers))
           rr    == RunResult(res)
           call  == [NoOp EXCEPT !.op = "Run", !.call = nCalls + 1, !.ctx = ctxAtEntry,
                                 !.params = params]
       IN  IF ctxAtEntry # "live"
           THEN /\ layers' = layers
                /\ last' = [call EXCEPT !.err = CtxErr(ctxAtEntry)]
           ELSE IF ap.err # Nil
           THEN /\ layers' = ap.layers
                /\ last' = [call EXCEPT !.err = ap.err, !.rules = rules,
                                        !.invoked = ap.invoked, !.config = ap.config]
           ELSE /\ layers' = ap.layers
                /\ last' = [call EXCEPT !.err = rr.err, !.out = rr.out, !.rules = rules,
                                        !.invoked = ap.invoked, !.config = ap.config,
                                        !.started = res.started,
                                        !.executed = TRUE,
                                        !.x = IF observed THEN [b |-> b, fire |-> fire]
                                              ELSE NoExecution]
    /\ UNCHANGED <<host, runner, tempFiles, pipes, containers, handles, now, cleanupFaults, inflight>>

\* The steps of an interactive setup that can fail, in the order taken.
PipeSteps == {"stdin", "stdout", "stderr", "start"}

\* The pipe ends that exist when step failAt fails.
PipesCreated(failAt) ==
    CASE failAt = "stdin"  -> {}
      [] failAt = "stdout" -> {"stdin"}
      [] failAt = "stderr" -> {"stdin", "stdout"}
      [] OTHER             -> {"stdin", "stdout", "stderr"}

\* The pipe ends of call id in ends.
Ends(id, ends) == { [call |-> id, end |-> e] : e \in ends }

\* The pipe ends Landrun.RunWithPipes closes on its failure paths.
Landrun_Closed(failAt) ==
    CASE failAt = "stdout" -> {"stdin"}
      [] failAt = "stderr" -> {"stdin", "stdout"}
      [] failAt = "start"  -> {"stdin", "stdout", "stderr"}
      [] OTHER             -> {}

\* Landrun.RunWithPipes.  failAt names the setup step that the machine makes
\* fail, if any; starting also fails when the Landlock domain forbids it.
Landrun_RunWithPipes(ctxAtEntry, params, failAt) ==
    /\ runner.type = "landrun"
    /\ nCalls < MaxCalls
    /\ nCalls' = nCalls + 1
    /\ LET id    == nCalls + 1
           rules == buildLandlockRules(runner.options, params)
           ap    == ApplyRestrictions(runner.rev, runner.options, rules, host.kernelABI, layers)
           fa    == IF failAt = "none" /\ ~CanExec(ap.layers) THEN "start" ELSE failAt
           call  == [NoOp EXCEPT !.op = "RunWithPipes", !.call = id, !.ctx = ctxAtEntry,
                                 !.params = params]
           appl  == [call EXCEPT !.rules = rules, !.invoked = ap.invoked, !.config = ap.config]
       IN  IF ctxAtEntry # "live"
           THEN /\ last' = [call EXCEPT !.err = CtxErr(ctxAtEntry)]
                /\ UNCHANGED <<layers, pipes, handles>>
           ELSE IF ap.err # Nil
           THEN /\ last' = [appl EXCEPT !.err = ap.err]
                /\ layers' = ap.layers
                /\ UNCHANGED <<pipes, handles>>
           ELSE IF fa # "none"
           THEN /\ last' = [appl EXCEPT !.failAt = fa,
                              !.err = IF fa = "start"
                                      THEN Errorf("failed to start command", ErrNotFound)
                                      ELSE Errorf("failed to create pipe",
                                                  <<Msg("too many open files")>>)]
                /\ layers' = ap.layers
                /\ pipes' = pipes \cup Ends(id, PipesCreated(fa) \ Landrun_Closed(fa))
                /\ UNCHANGED handles
           ELSE /\ last' = [appl EXCEPT !.started = TRUE]
                /\ layers' = ap.layers
                /\ pipes' = pipes \cup PipeEnds(id)
                /\ handles' = handles @@ (id :> NewHandle("landrun", {}, {}))
    /\ UNCHANGED <<host, runner, tempFiles, containers, now, cleanupFaults, inflight>>

\* The completion function Landrun.RunWithPipes returns: execCmd.Wait(), which
\* returns once the process has ended and closes the pipes; a second Wait on
\* the same command is an error.
Landrun_wait(id) ==
    /\ id \in DOMAIN handles
    /\ handles[id].backend = "landrun"
    /\ handles[id].proc # "running"
    /\ handles[id].waits < MaxWaits
    /\ handles' = [handles EXCEPT ![id].waits = @ + 1]
    /\ pipes' = pipes \ PipeEnds(id)
    /\ last' = [NoOp EXCEPT !.op = "wait", !.call = id, !.ctx = handles[id].ctx,
                  !.err = IF handles[id].waits = 0
                          THEN CmdWait(handles[id].proc, handles[id].ctx)
                          ELSE <<Msg("exec: Wait was already called")>>]
    /\ UNCHANGED <<host, runner, layers, tempFiles, containers, nCalls, now, cleanupFaults, inflight>>

\* ------------------------------------------------------------------ temp files
\* A file or directory in the temp directory: the call that made it, what it
\* is, and its content.
TempFile(id, kind, content) == [call |-> id, kind |-> kind, content |-> content]

\* Whether a removal or teardown succeeds: always, unless the machine is one
\* on which cleanup can fail.
RemovalOutcomes == IF cleanupFaults THEN BOOLEAN ELSE {TRUE}

\* ------------------------------------------------------------------ Exec
\* The steps of Exec.Run that the machine can make fail.
ExecSteps == {"mkdirTemp", "writeFile"}

\* Exec.Run.  single: isSingleExecutableCommand(command); failAt: the step the
\* machine makes fail, if any; removeOk: whether the deferred os.RemoveAll
\* succeeds.  Yields the result and the temp files made and left.
ExecRun(ctxAtEntry, id, single, tmpfile, failAt, x, removeOk) ==
    LET dir  == TempFile(id, "mcpshell", "script.sh")
        none == [out |-> <<>>, err |-> Nil, created |-> {}, left |-> {},
                 started |-> FALSE, failAt |-> "none", executed |-> FALSE]
        res  == CmdRun(x.b, x.fire, CanExec(layers))
        rr   == RunResult(res)
        ran  == [none EXCEPT !.out = rr.out, !.err = rr.err, !.started = res.started,
                             !.executed = TRUE]
        kept == IF removeOk THEN {} ELSE {dir}
    IN  IF ctxAtEntry # "live" THEN [none EXCEPT !.err = CtxErr(ctxAtEntry)]
        ELSE IF single \/ ~tmpfile THEN ran
        ELSE IF failAt = "mkdirTemp"
        THEN [none EXCEPT !.err = <<Msg("mkdir: no space left on device")>>,
                          !.failAt = failAt]
        ELSE IF failAt = "writeFile"
        THEN [none EXCEPT !.err = <<Msg("write: no space left on device")>>,
                          !.failAt = failAt, !.created = {dir}, !.left = kept]
        ELSE [ran EXCEPT !.created = {dir}, !.left = kept]

\* Exec.Run.  observed: whether the execution drawn is noted in last.x.
Exec_Run(ctxAtEntry, single, tmpfile, failAt, x, removeOk, observed) ==
    /\ runner.type = "exec"
    /\ nCalls < MaxCalls
    /\ nCalls' = nCalls + 1
    /\ LET r == ExecRun(ctxAtEntry, nCalls + 1, single, tmpfile, failAt, x, removeOk)
       IN  /\ tempFiles' = tempFiles \cup r.left
           /\ last' = [NoOp EXCEPT !.op = "Run", !.call = nCalls + 1, !.ctx = ctxAtEntry,
                         !.err = r.err, !.out = r.out, !.created = r.created,
                         !.started = r.started, !.failAt = r.failAt,
                         !.executed = r.executed,
                         !.x = IF r.executed /\ observed THEN x ELSE NoExecution]
    /\ UNCHANGED <<host, runner, layers, pipes, containers, handles, now, cleanupFaults, inflight>>

\* ------------------------------------------------------------------ Firejail and SandboxExec
PFile == <<"data", "f">>
PTplFile == <<Tpl, "f">>

\* FirejailOptions and SandboxExecOptions have the same fields.
AllProfileOptions ==
    [AllowNetworking   : BOOLEAN,
     AllowReadFolders  : {<<>>, <<PTpl>>},
     AllowWriteFolders : {<<>>, <<PData>>},
     AllowReadFiles    : {<<>>, <<PTplFile>>},
     AllowWriteFiles   : {<<>>, <<PFile>>},
     CustomProfile     : {"", "custom"}]

ZeroProfileOptions ==
    [AllowNetworking |-> FALSE, AllowReadFolders |-> <<>>, AllowWriteFolders |-> <<>>,
     AllowReadFiles |-> <<>>, AllowWriteFiles |-> <<>>, CustomProfile |-> ""]

\* The options explored: those that set at most MaxOptions fields, without a
\* custom profile and, for the network flag and the list of writable files,
\* with one.
ProfileOptionsSet ==
    { o \in AllProfileOptions :
        /\ Cardinality({f \in DOMAIN o \ {"CustomProfile"} : o[f] # ZeroProfileOptions[f]})
             <= MaxOptions
        /\ o.CustomProfile # "" =>
              /\ o.AllowReadFolders = <<>>
              /\ o.AllowWriteFolders = <<>>
              /\ o.AllowReadFiles = <<>> }

\* filepath.Dir
Dir(path) == IF Len(path) > 1 THEN SubSeq(path, 1, Len(path) - 1) ELSE path

\* contains (util.go)
contains(list, item) == \E i \in DOMAIN list : list[i] = item

\* The loop that appends the directory of every listed file to a folder list
\* unless the list contains it already.
RECURSIVE AppendDirs(_, _)
AppendDirs(folders, files) ==
    IF files = <<>> THEN folders
    ELSE LET dir == Dir(Head(files))
         IN  AppendDirs(IF contains(folders, dir) THEN folders ELSE Append(folders, dir),
                        Tail(files))

\* The option lists as Run and RunWithPipes of Firejail and SandboxExec leave
\* them in r.options: every non-empty list is replaced by its processed form.
\* withDirs: SandboxExec.Run also appends the parent directories of the files.
ProcessOptions(options, params, withDirs) ==
    LET tpl(list) == IF Len(list) > 0 THEN ProcessTemplateListFlexible(list, params) ELSE list
        readFiles  == tpl(options.AllowReadFiles)
        writeFiles == tpl(options.AllowWriteFiles)
        readDirs   == tpl(options.AllowReadFolders)
        writeDirs  == tpl(options.AllowWriteFolders)
    IN  [options EXCEPT
           !.AllowReadFiles    = readFiles,
           !.AllowWriteFiles   = writeFiles,
           !.AllowReadFolders  = IF withDirs THEN AppendDirs(readDirs, readFiles) ELSE readDirs,
           !.AllowWriteFolders = IF withDirs THEN AppendDirs(writeDirs, writeFiles) ELSE writeDirs]

\* A profile text that is a custom text and nothing else.
CustomText(text) ==
    [custom |-> text, network |-> FALSE, readFolders |-> <<>>, writeFolders |-> <<>>,
     readFiles |-> <<>>, writeFiles |-> <<>>]

\* The embedded profile templates firejail_profile.tpl and
\* sandbox_profile.tpl: a custom profile text stands for the whole profile;
\* without one the profile is generated, given here as the option values the
\* template prints.
profileTpl(options) ==
    IF options.CustomProfile # ""
    THEN CustomText(options.CustomProfile)
    ELSE [custom |-> "", network |-> options.AllowNetworking,
          readFolders |-> options.AllowReadFolders,
          writeFolders |-> options.AllowWriteFolders,
          readFiles |-> options.AllowReadFiles, writeFiles |-> options.AllowWriteFiles]

\* A rendering that would hand the template the options without their custom
\* profile.
RenderProfile_NoCustom(options) ==
    profileTpl([options EXCEPT !.CustomProfile = ""])

\* r.profileTpl.Execute(&profileBuf, r.options): the profile text the
\* template makes of the Runner's options as they are at that point.
RenderProfile(options) == profileTpl(options)

\* The steps of a batch Run of Firejail and SandboxExec that the machine can
\* make fail.
ProfileRunSteps == {"createProfile", "writeProfile", "syncProfile",
                    "createScript", "writeScript", "syncScript", "chmod"}

\* Run of Firejail and of SandboxExec after the entry check.  recheck:
\* Firejail.Run checks the context again just before it runs the command.
\* removeOk: whether the deferred removals succeed.
ProfileRun(id, options, single, failAt, x, removeOk, recheck) ==
    LET profile == TempFile(id, "profile", RenderProfile(options))
        script  == TempFile(id, "script", <<>>)
        none == [out |-> <<>>, err |-> Nil, created |-> {}, left |-> {},
                 started |-> FALSE, failAt |-> "none", executed |-> FALSE]
        fail(step, made) ==
            [none EXCEPT !.err = Errorf("failed at " \o step, <<Msg("no space left on device")>>),
                         !.failAt = step, !.created = made,
                         !.left = IF removeOk THEN {} ELSE made]
        made == IF single THEN {profile} ELSE {profile, script}
        res  == CmdRun(x.b, x.fire, CanExec(layers))
        rr   == RunResult(res)
    IN  IF failAt = "createProfile" THEN fail(failAt, {})
        ELSE IF failAt \in {"writeProfile", "syncProfile"} THEN fail(failAt, {profile})
        ELSE IF ~single /\ failAt = "createScript" THEN fail(failAt, {profile})
        ELSE IF ~single /\ failAt \in {"writeScript", "syncScript", "chmod"}
        THEN fail(failAt, {profile, script})
        ELSE IF recheck /\ x.fire.hit = "early"
        THEN [none EXCEPT !.err = CtxErr(x.fire.how), !.created = made,
                          !.left = IF removeOk THEN {} ELSE made]
        ELSE [none EXCEPT !.out = rr.out, !.err = rr.err, !.started = res.started,
                          !.executed = TRUE,
                          !.created = made, !.left = IF removeOk THEN {} ELSE made]

\* The frame and bookkeeping of a batch Run of a profile backend.
\* observed: whether the execution drawn is noted in last.x.
ProfileRunAction(type, ctxAtEntry, params, single, failAt, x, removeOk, observed) ==
    /\ runner.type = type
    /\ nCalls < MaxCalls
    /\ nCalls' = nCalls + 1
    /\ LET id      == nCalls + 1
           options == ProcessOptions(runner.options, params, type = "sandbox-exec")
           r       == ProfileRun(id, options, single, failAt, x, removeOk, type = "firejail")
           call    == [NoOp EXCEPT !.op = "Run", !.call = id, !.ctx = ctxAtEntry,
                                   !.params = params]
       IN  IF ctxAtEntry # "live"
           THEN /\ last' = [call EXCEPT !.err = CtxErr(ctxAtEntry)]
                /\ UNCHANGED <<runner, tempFiles>>
           ELSE /\ runner' = [runner EXCEPT !.options = options]
                /\ tempFiles' = tempFiles \cup r.left
                /\ last' = [call EXCEPT !.err = r.err, !.out = r.out, !.created = r.created,
                                        !.started = r.started, !.failAt = r.failAt,
                                        !.executed = r.executed,
                                        !.x = IF r.executed /\ observed THEN x ELSE NoExecution]
    /\ UNCHANGED <<host, layers, pipes, containers, handles, now, cleanupFaults, inflight>>

\* Firejail.Run
Firejail_Run(ctxAtEntry, params, single, failAt, x, removeOk, observed) ==
    ProfileRunAction("firejail", ctxAtEntry, params, single, failAt, x, removeOk, observed)

\* SandboxExec.Run
SandboxExec_Run(ctxAtEntry, params, single, failAt, x, removeOk, observed) ==
    ProfileRunAction("sandbox-exec", ctxAtEntry, params, single, failAt, x, removeOk, observed)

\* The steps of an interactive setup of Firejail and SandboxExec that the
\* machine can make fail.
ProfilePipeSteps == {"createProfile", "writeProfile", "closeProfile"} \cup PipeSteps

\* Failure paths that would forget the pipes made before a failing third pipe.
Profile_Closed_NotStderr(failAt) ==
    CASE failAt = "stdout" -> {"stdin"}
      [] failAt = "start"  -> {"stdin", "stdout", "stderr"}
      [] OTHER             -> {}

\* The pipe ends RunWithPipes of Firejail and SandboxExec closes on its
\* failure paths.
Profile_Closed(failAt) ==
    CASE failAt = "stdout" -> {"stdin"}
      [] failAt = "stderr" -> {"stdin", "stdout"}
      [] failAt = "start"  -> {"stdin", "stdout", "stderr"}
      [] OTHER             -> {}

\* Whether the failure path of step failAt calls os.Remove on the profile.
Profile_Removes(failAt) ==
    failAt \in {"writeProfile", "closeProfile", "stdin", "stdout", "stderr", "start"}

\* RunWithPipes of Firejail and of SandboxExec.
ProfileRunWithPipes(type, ctxAtEntry, params, failAt, removeOk) ==
    /\ runner.type = type
    /\ nCalls < MaxCalls
    /\ nCalls' = nCalls + 1
    /\ LET id      == nCalls + 1
           options == ProcessOptions(runner.options, params, FALSE)
           profile == TempFile(id, "profile", RenderProfile(options))
           fa      == IF failAt = "none" /\ ~CanExec(layers) THEN "start" ELSE failAt
           made    == IF fa = "createProfile" THEN {} ELSE {profile}
           pipesIn == IF fa \in PipeSteps THEN PipesCreated(fa) ELSE {}
           call    == [NoOp EXCEPT !.op = "RunWithPipes", !.call = id, !.ctx = ctxAtEntry,
                                   !.params = params]
       IN  IF ctxAtEntry # "live"
           THEN /\ last' = [call EXCEPT !.err = CtxErr(ctxAtEntry)]
                /\ UNCHANGED <<runner, tempFiles, pipes, handles>>
           ELSE IF fa # "none"
           THEN /\ runner' = [runner EXCEPT !.options = options]
                /\ last' = [call EXCEPT !.failAt = fa, !.created = made,
                              !.err = IF fa \in PipeSteps
                                      THEN <<Msg("failed at " \o fa)>>
                                      ELSE Errorf("failed at " \o fa,
                                                  <<Msg("no space left on device")>>)]
                /\ tempFiles' = tempFiles \cup
                                  (IF Profile_Removes(fa) /\ removeOk THEN {} ELSE made)
                /\ pipes' = pipes \cup Ends(id, pipesIn \ Profile_Closed(fa))
                /\ UNCHANGED handles
           ELSE /\ runner' = [runner EXCEPT !.options = options]
                /\ last' = [call EXCEPT !.started = TRUE, !.created = made]
                /\ tempFiles' = tempFiles \cup made
                /\ pipes' = pipes \cup PipeEnds(id)
                /\ handles' = handles @@ (id :> NewHandle(type, made, {}))
    /\ UNCHANGED <<host, layers, containers, now, cleanupFaults, inflight>>

\* Firejail.RunWithPipes
Firejail_RunWithPipes(ctxAtEntry, params, failAt, removeOk) ==
    ProfileRunWithPipes("firejail", ctxAtEntry, params, failAt, removeOk)

\* SandboxExec.RunWithPipes
SandboxExec_RunWithPipes(ctxAtEntry, params, failAt, removeOk) ==
    ProfileRunWithPipes("sandbox-exec", ctxAtEntry, params, failAt, removeOk)

\* A completion function that would report a failed cleanup when the process
\* itself ended without error.
waitFunc_CleanupError(execErr, cleanupOk) ==
    IF execErr = Nil /\ ~cleanupOk THEN <<Msg("cleanup failed")>> ELSE execErr

\* What a completion function returns: the error of execCmd.Wait().  The
\* outcome of the cleanup made after Wait is logged and is no part of it.
waitFunc(execErr, cleanupOk) == execErr

\* A completion function that would remove the profile only after a
\* successful Wait.
Profile_waitRemoves_OnSuccess(err) == err = Nil

\* Whether the completion function calls os.Remove on the profile, given
\* what Wait returned: it always does.
Profile_waitRemoves(err) == TRUE

\* The completion function of Firejail.RunWithPipes and of
\* SandboxExec.RunWithPipes: execCmd.Wait(), then os.Remove of the profile,
\* whose failure is only logged; the result is the one of Wait.
ProfileWait(type, id, removeOk) ==
    /\ id \in DOMAIN handles
    /\ handles[id].backend = type
    /\ handles[id].proc # "running"
    /\ handles[id].waits < MaxWaits
    /\ handles' = [handles EXCEPT ![id].waits = @ + 1]
    /\ pipes' = pipes \ PipeEnds(id)
    /\ LET err == IF handles[id].waits = 0
                  THEN CmdWait(handles[id].proc, handles[id].ctx)
                  ELSE <<Msg("exec: Wait was already called")>>
       IN  /\ tempFiles' = IF Profile_waitRemoves(err) /\ removeOk
                           THEN tempFiles \ handles[id].files ELSE tempFiles
           /\ last' = [NoOp EXCEPT !.op = "wait", !.call = id, !.ctx = handles[id].ctx,
                                   !.err = waitFunc(err, removeOk)]
    /\ UNCHANGED <<host, runner, layers, containers, nCalls, now, cleanupFaults, inflight>>

Firejail_wait(id, removeOk) == ProfileWait("firejail", id, removeOk)

SandboxExec_wait(id, removeOk) == ProfileWait("sandbox-exec", id, removeOk)

\* ------------------------------------------------------------------ Docker
\* DockerOptions as NewDockerOptions initialises it.
DefaultDockerOptions ==
    [Image |-> "", DockerRunOpts |-> "", Mounts |-> <<>>, AllowNetworking |-> TRUE,
     Network |-> "", User |-> "", WorkDir |-> "", PrepareCommand |-> "",
     Memory |-> "", MemoryReservation |-> "", MemorySwap |-> "",
     MemorySwappiness |-> -1, CapAdd |-> <<>>, CapDrop |-> <<>>, DNS |-> <<>>,
     DNSSearch |-> <<>>, Platform |-> ""]

DockerOptionsSet ==
    { [DefaultDockerOptions EXCEPT !.Image = image, !.AllowNetworking = net] :
        image \in {"", "alpine"}, net \in BOOLEAN }

\* One part of a docker command line: a flag with its string or number value.
Arg(flag, value) == <<[flag |-> flag, s |-> value]>>
ArgD(flag, number) == <<[flag |-> flag, d |-> number]>>
ArgEach(flag, list) == [i \in DOMAIN list |-> [flag |-> flag, s |-> list[i]]]
ArgQuoted(flag, list) == [i \in DOMAIN list |-> [flag |-> flag, quoted |-> list[i]]]
When(cond, args) == IF cond THEN args ELSE <<>>

\* DockerOptions.GetBaseDockerCommand: the parts of the "docker run --rm"
\* command line of batch Run, before the image and the command.
GetBaseDockerCommand(o, env) ==
    Arg("docker run", "--rm")
    \o (IF ~o.AllowNetworking THEN Arg("--network", "none")
        ELSE When(o.Network # "", Arg("--network", o.Network)))
    \o When(o.User # "", Arg("--user", o.User))
    \o When(o.WorkDir # "", Arg("--workdir", o.WorkDir))
    \o When(o.Memory # "", Arg("--memory", o.Memory))
    \o When(o.MemoryReservation # "", Arg("--memory-reservation", o.MemoryReservation))
    \o When(o.MemorySwap # "", Arg("--memory-swap", o.MemorySwap))
    \o When(o.MemorySwappiness # -1, ArgD("--memory-swappiness", o.MemorySwappiness))
    \o ArgEach("--cap-add", o.CapAdd)
    \o ArgEach("--cap-drop", o.CapDrop)
    \o ArgEach("--dns", o.DNS)
    \o ArgEach("--dns-search", o.DNSSearch)
    \o When(o.Platform # "", Arg("--platform", o.Platform))
    \o When(o.DockerRunOpts # "", Arg("", o.DockerRunOpts))
    \o ArgEach("-v", o.Mounts)
    \o ArgQuoted("-e", env)

\* The dockerRunArgs of Docker.RunWithPipes: the command line that creates the
\* background container, before the image and "sleep infinity".
dockerRunArgs(o, containerName, env) ==
    Arg("run", "") \o <<[flag |-> "--name", name |-> containerName]>> \o Arg("-d", "")
    \o When(o.Memory # "", Arg("--memory", o.Memory))
    \o When(o.MemoryReservation # "", Arg("--memory-reservation", o.MemoryReservation))
    \o When(o.MemorySwap # "", Arg("--memory-swap", o.MemorySwap))
    \o (IF ~o.AllowNetworking THEN Arg("--network", "none")
        ELSE When(o.Network # "", Arg("--network", o.Network)))
    \o When(o.User # "", Arg("--user", o.User))
    \o When(o.WorkDir # "", Arg("--workdir", o.WorkDir))
    \o ArgEach("-v", o.Mounts)
    \o ArgEach("-e", env)

\* The steps of Docker.createScriptFile that the machine can make fail.
DockerScriptSteps == {"createScript", "writeScript", "chmod", "closeScript"}

\* A createScriptFile that would return its error without removing the file
\* it had created.
createScriptFile_NoRemove(id, failAt, removeOk) ==
    LET script == TempFile(id, "mcpshell-docker", <<>>)
        cause  == <<Msg("no space left on device")>>
    IN  IF failAt = "createScript"
        THEN [err |-> Errorf("failed to create temporary script file", cause),
              created |-> {}, left |-> {}]
        ELSE IF failAt \in {"writeScript", "chmod", "closeScript"}
        THEN [err |-> Errorf("failed at " \o failAt, cause),
              created |-> {script}, left |-> {script}]
        ELSE [err |-> Nil, created |-> {script}, left |-> {script}]

\* Docker.createScriptFile: the script file it leaves, and its error.  On a
\* failure after creation the file is removed, best effort.
createScriptFile(id, failAt, removeOk) ==
    LET script == TempFile(id, "mcpshell-docker", <<>>)
        cause  == <<Msg("no space left on device")>>
    IN  IF failAt = "createScript"
        THEN [err |-> Errorf("failed to create temporary script file", cause),
              created |-> {}, left |-> {}]
        ELSE IF failAt \in {"writeScript", "chmod", "closeScript"}
        THEN [err |-> Errorf("failed at " \o failAt, cause),
              created |-> {script}, left |-> IF removeOk THEN {} ELSE {script}]
        ELSE [err |-> Nil, created |-> {script}, left |-> {script}]

\* Docker.Run after construction of its Exec runner: the script file is made
\* before the context is looked at, by the Exec runner that runs the docker
\* command line through sh -c; the deferred os.Remove of the script is logged
\* when it fails.
DockerRun(ctxAtEntry, id, single, failAt, x, removeOk) ==
    LET sf == IF single THEN [err |-> Nil, created |-> {}, left |-> {}]
              ELSE createScriptFile(id, failAt, removeOk)
        r  == ExecRun(ctxAtEntry, id, FALSE, FALSE, "none", x, TRUE)
    IN  IF sf.err # Nil
        THEN [out |-> <<>>, err |-> Errorf("failed to create script file", sf.err),
              created |-> sf.created, left |-> sf.left, started |-> FALSE,
              failAt |-> failAt, executed |-> FALSE]
        ELSE [out |-> r.out,
              err |-> IF r.err # Nil
                      THEN Errorf("docker command execution failed", r.err) ELSE Nil,
              created |-> sf.created, left |-> IF removeOk THEN {} ELSE sf.left,
              started |-> r.started, failAt |-> "none", executed |-> r.executed]

\* Docker.Run.  observed: whether the execution drawn is noted in last.x.
Docker_Run(ctxAtEntry, single, failAt, x, removeOk, observed) ==
    /\ runner.type = "docker"
    /\ nCalls < MaxCalls
    /\ nCalls' = nCalls + 1
    /\ LET r == DockerRun(ctxAtEntry, nCalls + 1, single, failAt, x, removeOk)
       IN  /\ tempFiles' = tempFiles \cup r.left
           /\ last' = [NoOp EXCEPT !.op = "Run", !.call = nCalls + 1, !.ctx = ctxAtEntry,
                         !.err = r.err, !.out = r.out, !.created = r.created,
                         !.started = r.started, !.failAt = r.failAt,
                         !.executed = r.executed,
                         !.x = IF r.executed /\ observed THEN x ELSE NoExecution,
                         !.args = IF r.failAt = "none"
                                  THEN GetBaseDockerCommand(runner.options, <<>>)
                                  ELSE <<>>]
    /\ UNCHANGED <<host, runner, layers, pipes, containers, handles, now, cleanupFaults, inflight>>

\* What "docker run --name N -d IMAGE sleep infinity" can do: create and
\* start the container; fail before the container exists; or fail after the
\* daemon has created it (the container cannot be started, or the context
\* kills the docker client in between), which leaves the container behind.
DockerRunOutcomes == {"started", "failed", "createdOnly"}

\* A naming that would give every container the same name.
ContainerName_Fixed(t) == <<"go-restricted-runner", 0>>

\* fmt.Sprintf("go-restricted-runner-%d", time.Now().UnixNano())
ContainerName(t) == <<"go-restricted-runner", t>>

\* The pipe ends Docker.RunWithPipes closes on its failure paths.
Docker_Closed(failAt) ==
    CASE failAt = "stdout" -> {"stdin"}
      [] failAt = "stderr" -> {"stdin", "stdout"}
      [] failAt = "start"  -> {"stdin", "stdout", "stderr"}
      [] OTHER             -> {}

\* Whether the failure path of step failAt runs "docker rm -f".
Docker_Removes(failAt) == failAt \in {"stdin", "stdout", "stderr", "start"}

\* Docker.RunWithPipes.  The call reads the clock for the container's name
\* and runs "docker run", which lasts longer than a tick of the clock: a
\* later call reads a later time.
Docker_RunWithPipes(ctxAtEntry, outcome, failAt, rmOk) ==
    /\ runner.type = "docker"
    /\ nCalls < MaxCalls
    /\ nCalls' = nCalls + 1
    /\ ctxAtEntry = "live" => now < MaxClock
    /\ now' = IF ctxAtEntry = "live" THEN now + 1 ELSE now
    /\ LET id   == nCalls + 1
           containerName == ContainerName(now)
           \* a name in use makes docker run fail before anything is created
           run  == IF containerName \in containers THEN "failed" ELSE outcome
           entry == [NoOp EXCEPT !.op = "RunWithPipes", !.call = id, !.ctx = ctxAtEntry]
           call == [entry EXCEPT !.args = dockerRunArgs(runner.options, containerName, <<>>)]
       IN  IF ctxAtEntry # "live"
           THEN /\ last' = [entry EXCEPT !.err = CtxErr(ctxAtEntry)]
                /\ UNCHANGED <<containers, pipes, handles>>
           ELSE IF run # "started"
           THEN /\ last' = [call EXCEPT !.failAt = "createContainer",
                              !.created = IF run = "createdOnly" THEN {containerName} ELSE {},
                              !.err = Errorf("failed to create container", ErrExitStatus)]
                /\ containers' = IF run = "createdOnly"
                                 THEN containers \cup {containerName} ELSE containers
                /\ UNCHANGED <<pipes, handles>>
           ELSE IF failAt # "none"
           THEN /\ last' = [call EXCEPT !.failAt = failAt, !.created = {containerName},
                              !.err = Errorf("failed at " \o failAt,
                                             <<Msg("too many open files")>>)]
                /\ containers' = IF Docker_Removes(failAt) /\ rmOk
                                 THEN containers ELSE containers \cup {containerName}
                /\ pipes' = pipes \cup Ends(id, PipesCreated(failAt) \ Docker_Closed(failAt))
                /\ UNCHANGED handles
           ELSE /\ last' = [call EXCEPT !.started = TRUE, !.created = {containerName}]
                /\ containers' = containers \cup {containerName}
                /\ pipes' = pipes \cup PipeEnds(id)
                /\ handles' = handles @@ (id :> NewHandle("docker", {}, {containerName}))
    /\ UNCHANGED <<host, runner, layers, tempFiles, cleanupFaults, inflight>>

\* The completion function of Docker.RunWithPipes: execCmd.Wait(), then
\* "docker rm -f" of the container, whose failure is only logged; the result
\* is the one of Wait.
Docker_wait(id, rmOk) ==
    /\ id \in DOMAIN handles
    /\ handles[id].backend = "docker"
    /\ handles[id].proc # "running"
    /\ handles[id].waits < MaxWaits
    /\ handles' = [handles EXCEPT ![id].waits = @ + 1]
    /\ pipes' = pipes \ PipeEnds(id)
    /\ containers' = IF rmOk THEN containers \ handles[id].containers ELSE containers
    /\ last' = [NoOp EXCEPT !.op = "wait", !.call = id, !.ctx = handles[id].ctx,
                  !.err = waitFunc(IF handles[id].waits = 0
                                   THEN CmdWait(handles[id].proc, handles[id].ctx)
                                   ELSE <<Msg("exec: Wait was already called")>>,
                                   rmOk)]
    /\ UNCHANGED <<host, runner, layers, tempFiles, nCalls, now, cleanupFaults, inflight>>

\* ------------------------------------------------------------------ factory
\* The identifiers New is called with: the documented ones and one that names
\* no backend.
Types == {"exec", "sandbox-exec", "firejail", "docker", "landrun", "podman"}

ZeroExecOptions == [Shell |-> ""]

\* The option values New is called with, per runner type.
OptionsFor(t) ==
    CASE t = "docker"                       -> DockerOptionsSet
      [] t \in {"firejail", "sandbox-exec"} -> ProfileOptionsSet
      [] t = "landrun"                      -> {ZeroLandrunOptions}
      [] OTHER                              -> {ZeroExecOptions}

\* The constructors New calls: NewDockerOptions requires an image.
Construct(t, options) ==
    IF t = "docker" /\ options.Image = ""
    THEN <<Msg("docker runner requires 'image' option")>>
    ELSE Nil

\* CheckImplicitRequirements of Exec, SandboxExec, Firejail and Docker.
\* toolOk: the backend's executable is in PATH (and the Docker daemon runs).
CheckImplicitRequirements(t, goos, toolOk) ==
    CASE t = "sandbox-exec" ->
           IF goos # "darwin" THEN <<Msg("sandbox-exec runner requires macOS")>>
           ELSE IF ~toolOk THEN <<Msg("sandbox-exec executable not found in PATH")>>
           ELSE Nil
      [] t = "firejail" ->
           IF goos # "linux" THEN <<Msg("firejail runner requires Linux")>>
           ELSE IF ~toolOk THEN <<Msg("firejail executable not found in PATH")>>
           ELSE Nil
      [] t = "docker" ->
           IF ~toolOk THEN <<Msg("docker executable not found in PATH")>> ELSE Nil
      [] OTHER -> Nil

\* A factory that would hand out the Runner it constructed without probing.
New_NoProbe(t, options, toolOk) ==
    /\ runner = NoRunner
    /\ LET known == t \in {"exec", "sandbox-exec", "firejail", "docker"}
           err   == IF ~known THEN <<Msg("unknown runner type")>>
                    ELSE Construct(t, options)
       IN  /\ runner' = IF err = Nil THEN [type |-> t, rev |-> "", options |-> options, given |-> options]
                        ELSE runner
           /\ last' = [NoOp EXCEPT !.op = "New", !.err = err]
    /\ UNCHANGED <<host, layers, tempFiles, pipes, containers, handles, nCalls, now,
                   cleanupFaults, inflight>>

\* New
New(t, options, toolOk) ==
    /\ runner = NoRunner
    /\ LET known == t \in {"exec", "sandbox-exec", "firejail", "docker"}
           err   == IF ~known THEN <<Msg("unknown runner type")>>
                    ELSE IF Construct(t, options) # Nil THEN Construct(t, options)
                    ELSE CheckImplicitRequirements(t, host.goos, toolOk)
       IN  /\ runner' = IF err = Nil THEN [type |-> t, rev |-> "", options |-> options, given |-> options]
                        ELSE runner
           /\ last' = [NoOp EXCEPT !.op = "New", !.err = err]
    /\ UNCHANGED <<host, layers, tempFiles, pipes, containers, handles, nCalls, now,
                   cleanupFaults, inflight>>

\* ------------------------------------------------------------------ generic options
\* Options is a map from keys to values of any type: a bool, a string, a
\* number (float64) or a list of such values.
B(b) == [kind |-> "bool", v |-> b]
S(str) == [kind |-> "string", v |-> str]
N(n) == [kind |-> "number", v |-> n]
L(elems) == [kind |-> "list", v |-> elems]

GenericValues == {B(FALSE), S("x"), N(1), L(<<S("x")>>), L(<<N(1)>>), L(<<S("x"), N(1)>>)}

\* The options structs, by the JSON key of each field and the type of the
\* field.
ExecFields == [shell |-> "string"]
ProfileFields ==
    [shell |-> "string", allow_networking |-> "bool", allow_user_folders |-> "bool",
     allow_read_folders |-> "strings", allow_write_folders |-> "strings",
     allow_read_files |-> "strings", allow_write_files |-> "strings",
     custom_profile |-> "string"]
LandrunFields ==
    [allow_read_folders |-> "strings", allow_read_exec_folders |-> "strings",
     allow_write_folders |-> "strings", allow_write_exec_folders |-> "strings",
     allow_bind_tcp |-> "numbers", allow_connect_tcp |-> "numbers",
     allow_networking |-> "bool", unrestricted_filesystem |-> "bool",
     best_effort |-> "bool"]
DockerFields ==
    [image |-> "string", docker_run_opts |-> "string", mounts |-> "strings",
     allow_networking |-> "bool", network |-> "string", user |-> "string",
     workdir |-> "string", prepare_command |-> "string", memory |-> "string",
     memory_reservation |-> "string", memory_swap |-> "string",
     memory_swappiness |-> "number", cap_add |-> "strings", cap_drop |-> "strings",
     dns |-> "strings", dns_search |-> "strings", platform |-> "string"]

FieldsOf(t) ==
    CASE t = "exec"                         -> ExecFields
      [] t \in {"firejail", "sandbox-exec"} -> ProfileFields
      [] t = "landrun"                      -> LandrunFields
      [] OTHER                              -> DockerFields

\* Whether a generic value can be stored in a field of the given type.
Fits(value, type) ==
    CASE type = "bool"    -> value.kind = "bool"
      [] type = "string"  -> value.kind = "string"
      [] type = "number"  -> value.kind = "number"
      [] type = "strings" -> /\ value.kind = "list"
                             /\ \A i \in DOMAIN value.v : value.v[i].kind = "string"
      [] OTHER            -> /\ value.kind = "list"
                             /\ \A i \in DOMAIN value.v : value.v[i].kind = "number"

\* The value of a field once a fitting generic value is stored in it, and
\* the zero value of a field.
Stored(value) ==
    IF value.kind = "list" THEN [i \in DOMAIN value.v |-> value.v[i].v] ELSE value.v
ZeroOf(type) ==
    CASE type = "bool" -> FALSE [] type = "string" -> "" [] type = "number" -> 0
      [] OTHER -> <<>>

\* All JSON keys in the order json.Marshal writes the keys of a map: sorted.
SortedKeys ==
    <<"allow_bind_tcp", "allow_connect_tcp", "allow_networking", "allow_read_exec_folders",
      "allow_read_files", "allow_read_folders", "allow_user_folders",
      "allow_write_exec_folders", "allow_write_files", "allow_write_folders",
      "best_effort", "cap_add", "cap_drop", "custom_profile", "dns", "dns_search",
      "docker_run_opts", "extra", "image", "memory", "memory_reservation", "memory_swap",
      "memory_swappiness", "mounts", "network", "platform", "prepare_command", "shell",
      "unrestricted_filesystem", "user", "workdir">>

\* options.ToJSON() followed by json.Unmarshal into a struct with the given
\* fields: a key that names no field is skipped; a value that does not fit
\* its field leaves the field alone and makes Unmarshal return, once the
\* whole text is decoded, the type error of the first such key, which names
\* the field.
Unmarshal(fields, options) ==
    LET bad   == {k \in DOMAIN options \cap DOMAIN fields : ~Fits(options[k], fields[k])}
        first == CHOOSE i \in DOMAIN SortedKeys :
                   /\ SortedKeys[i] \in bad
                   /\ \A j \in 1..(i - 1) : SortedKeys[j] \notin bad
    IN  [opts |-> [k \in DOMAIN fields |->
                     IF k \in DOMAIN options /\ Fits(options[k], fields[k])
                     THEN Stored(options[k]) ELSE ZeroOf(fields[k])],
         err  |-> IF bad = {} THEN Nil
                  ELSE <<[msg |-> "json: cannot unmarshal into Go struct field",
                          text |-> <<SortedKeys[first]>>]>>]

\* The entries of a generic list that are strings.
RECURSIVE Strings(_)
Strings(list) ==
    IF list = <<>> THEN <<>>
    ELSE (IF Head(list).kind = "string" THEN <<Head(list).v>> ELSE <<>>)
         \o Strings(Tail(list))

\* NewDockerOptions: every key is read with a type assertion, and a value of
\* another type is passed over; only the image is required.
NewDockerOptions(genericOpts) ==
    LET has(k, kind) == k \in DOMAIN genericOpts /\ genericOpts[k].kind = kind
        str(k)       == IF has(k, "string") THEN genericOpts[k].v ELSE ""
        strs(k)      == IF has(k, "list") THEN Strings(genericOpts[k].v) ELSE <<>>
        opts == [Image |-> str("image"),
                 DockerRunOpts |-> str("docker_run_opts"),
                 Mounts |-> strs("mounts"),
                 AllowNetworking |-> IF has("allow_networking", "bool")
                                     THEN genericOpts["allow_networking"].v ELSE TRUE,
                 Network |-> str("network"),
                 User |-> str("user"),
                 WorkDir |-> str("workdir"),
                 PrepareCommand |-> str("prepare_command"),
                 Memory |-> str("memory"),
                 MemoryReservation |-> str("memory_reservation"),
                 MemorySwap |-> str("memory_swap"),
                 MemorySwappiness |-> IF has("memory_swappiness", "number")
                                      THEN genericOpts["memory_swappiness"].v ELSE -1,
                 CapAdd |-> strs("cap_add"),
                 CapDrop |-> strs("cap_drop"),
                 DNS |-> strs("dns"),
                 DNSSearch |-> strs("dns_search"),
                 Platform |-> str("platform")]
    IN  IF has("image", "string")
        THEN [opts |-> opts, err |-> Nil]
        ELSE [opts |-> DefaultDockerOptions,
              err |-> <<Msg("docker runner requires 'image' option")>>]

\* The options parser of each backend, and the constructor that calls it:
\* NewExec and NewDocker return the parser's error as it is, the others wrap
\* it.
NewOptions(t, options) ==
    IF t = "docker" THEN NewDockerOptions(options) ELSE Unmarshal(FieldsOf(t), options)

ConstructorError(t, err) ==
    CASE err = Nil        -> Nil
      [] t = "firejail"     -> Errorf("failed to parse firejail options", err)
      [] t = "sandbox-exec" -> Errorf("failed to parse sandbox options", err)
      [] t = "landrun"      -> Errorf("failed to parse landrun options", err)
      [] OTHER              -> err

\* The generic options explored for a backend: at most MaxKeys keys, among
\* the keys of its fields and one key that names no field.
GenericOptions(t) ==
    UNION { [K -> GenericValues] :
              K \in {K \in SUBSET (DOMAIN FieldsOf(t) \cup {"extra"}) :
                       Cardinality(K) <= MaxKeys} }

Backends == {"exec", "sandbox-exec", "firejail", "docker", "landrun"}

\* NewExec, NewSandboxExec, NewFirejail, NewDocker and NewLandrun called with
\* generic options: the Runner is made when its options parse.  The options
\* of Docker are kept as DockerOptions, those of the other backends by the
\* JSON keys of their fields.
NewBackend(t, options) ==
    /\ runner = NoRunner
    /\ LET parsed == NewOptions(t, options)
           err    == ConstructorError(t, parsed.err)
       IN  /\ runner' = IF err = Nil
                        THEN [type |-> t, rev |-> IF t = "landrun" THEN "landrun.go" ELSE "",
                              options |-> parsed.opts, given |-> parsed.opts]
                        ELSE runner
           /\ last' = [NoOp EXCEPT !.op = "NewBackend", !.type = t, !.generic = options,
                                   !.err = err]
    /\ UNCHANGED <<host, layers, tempFiles, pipes, containers, handles, nCalls, now,
                   cleanupFaults, inflight>>

\* ------------------------------------------------------------------ environment
\* The process of an interactive call ends by itself with exit code code.
ProcExit(id, code) ==
    /\ id \in DOMAIN handles
    /\ handles[id].proc = "running"
    /\ handles' = [handles EXCEPT ![id].proc = IF code = 0 THEN "exited0" ELSE "exited1"]
    /\ UNCHANGED <<host, runner, layers, tempFiles, pipes, containers, nCalls, now,
                   cleanupFaults, inflight, last>>

\* The context of an interactive call fires (how: cancel or deadline) before
\* its completion function has returned: exec.CommandContext kills the
\* process if it is still running.
CtxDone(id, how) ==
    /\ id \in DOMAIN handles
    /\ handles[id].ctx = "live"
    /\ handles[id].waits = 0
    /\ handles' = [handles EXCEPT ![id].ctx = how,
                                  ![id].proc = IF @ = "running" THEN "killed" ELSE @]
    /\ UNCHANGED <<host, runner, layers, tempFiles, pipes, containers, nCalls, now,
                   cleanupFaults, inflight, last>>

\* The clock advances between calls.  Only Docker.RunWithPipes reads it.
Tick ==
    /\ runner.type = "docker"
    /\ now < MaxClock
    /\ now' = now + 1
    /\ UNCHANGED <<host, runner, layers, tempFiles, pipes, containers, handles, nCalls,
                   cleanupFaults, inflight, last>>

\* ------------------------------------------------------------------ specification
\* The inputs that matter to a call: past a cancelled entry check and past a
\* failing setup step nothing else is read.
Quiet == [b |-> [start |-> TRUE, exit |-> 0, stdout |-> <<"h">>, stderr |-> <<"w", "\n">>],
          fire |-> [how |-> "live", hit |-> "none"]]
\* Whether a list of the options has an entry with a placeholder.
HasPlaceholder(options) ==
    \E f \in DOMAIN options :
      /\ f \in {"AllowReadFolders", "AllowReadExecFolders", "AllowWriteFolders",
                "AllowWriteExecFolders", "AllowReadFiles", "AllowWriteFiles"}
      /\ \E i \in DOMAIN options[f] : Tpl \in Range(options[f][i])
\* The substitution context only matters to a Runner constructed with a
\* placeholder in its lists.
ParamsFor(c) ==
    IF c = "live" /\ HasPlaceholder(runner.given) THEN ParamsSet ELSE {NoParams}
StepsFor(c, steps) == IF c = "live" THEN steps \cup {"none"} ELSE {"none"}
ExecutionsFor(c, failAt, executions) ==
    IF c = "live" /\ failAt = "none" THEN executions ELSE {Quiet}
FlagsFor(c) == IF c = "live" THEN BOOLEAN ELSE {FALSE}

\* Each disjunct names the runner it is for before it draws its inputs.
Next ==
    \/ /\ runner = NoRunner
       /\ \E t \in Types : \E options \in OptionsFor(t) : \E toolOk \in BOOLEAN :
             New(t, options, toolOk)
    \/ /\ runner = NoRunner
       /\ \E rev \in LandrunRevs, options \in LandrunOptionsSet :
          \E abi \in KernelABIs(host.goos) :
             NewLandrun(rev, options, abi)
    \/ \E present \in BOOLEAN : Landrun_CheckImplicitRequirements(present)
    \/ Landrun_CheckImplicitRequirements_RestrictPaths
    \/ /\ runner.type = "landrun" /\ nCalls < MaxCalls
       /\ \E c \in CtxStates : \E params \in ParamsFor(c) :
          \E x \in ExecutionsFor(c, "none", Executions) :
             Landrun_Run(c, params, x.b, x.fire, FALSE)
    \/ /\ runner.type = "landrun" /\ nCalls < MaxCalls
       /\ \E c \in CtxStates : \E params \in ParamsFor(c) :
          \E failAt \in StepsFor(c, PipeSteps) :
             Landrun_RunWithPipes(c, params, failAt)
    \/ \E id \in DOMAIN handles : Landrun_wait(id)
    \/ /\ runner.type = "exec" /\ nCalls < MaxCalls
       /\ \E c \in CtxStates : \E single \in FlagsFor(c) : \E tmpfile \in FlagsFor(c) :
          \E failAt \in StepsFor(c, ExecSteps) :
          \E x \in ExecutionsFor(c, failAt, Executions) :
          \E removeOk \in RemovalOutcomes :
             Exec_Run(c, single, tmpfile, failAt, x, removeOk, FALSE)
    \/ /\ runner.type = "firejail" /\ nCalls < MaxCalls
       /\ \E c \in CtxStates : \E params \in ParamsFor(c) : \E single \in FlagsFor(c) :
          \E failAt \in StepsFor(c, ProfileRunSteps) :
          \E x \in ExecutionsFor(c, failAt, Executions) :
          \E removeOk \in RemovalOutcomes :
             Firejail_Run(c, params, single, failAt, x, removeOk, FALSE)
    \/ /\ runner.type = "sandbox-exec" /\ nCalls < MaxCalls
       /\ \E c \in CtxStates : \E params \in ParamsFor(c) : \E single \in FlagsFor(c) :
          \E failAt \in StepsFor(c, ProfileRunSteps) :
          \E x \in ExecutionsFor(c, failAt, Executions) :
          \E removeOk \in RemovalOutcomes :
             SandboxExec_Run(c, params, single, failAt, x, removeOk, FALSE)
    \/ /\ runner.type = "firejail" /\ nCalls < MaxCalls
       /\ \E c \in CtxStates : \E params \in ParamsFor(c) :
          \E failAt \in StepsFor(c, ProfilePipeSteps) : \E removeOk \in RemovalOutcomes :
             Firejail_RunWithPipes(c, params, failAt, removeOk)
    \/ /\ runner.type = "sandbox-exec" /\ nCalls < MaxCalls
       /\ \E c \in CtxStates : \E params \in ParamsFor(c) :
          \E failAt \in StepsFor(c, ProfilePipeSteps) : \E removeOk \in RemovalOutcomes :
             SandboxExec_RunWithPipes(c, params, failAt, removeOk)
    \/ \E id \in DOMAIN handles, removeOk \in RemovalOutcomes : Firejail_wait(id, removeOk)
    \/ \E id \in DOMAIN handles, removeOk \in RemovalOutcomes : SandboxExec_wait(id, removeOk)
    \/ /\ runner.type = "docker" /\ nCalls < MaxCalls
       /\ \E c \in CtxStates, single \in BOOLEAN :
          \E failAt \in (IF single THEN {"none"} ELSE DockerScriptSteps \cup {"none"}) :
          \E x \in ExecutionsFor(c, failAt, Executions) : \E removeOk \in RemovalOutcomes :
             Docker_Run(c, single, failAt, x, removeOk, FALSE)
    \/ /\ runner.type = "docker" /\ nCalls < MaxCalls
       /\ \E c \in CtxStates : \E outcome \in DockerRunOutcomes :
          \E failAt \in StepsFor(c, PipeSteps) : \E rmOk \in RemovalOutcomes :
             Docker_RunWithPipes(c, outcome, failAt, rmOk)
    \/ \E id \in DOMAIN handles, rmOk \in RemovalOutcomes : Docker_wait(id, rmOk)
    \/ \E id \in DOMAIN handles, code \in {0, 1} : ProcExit(id, code)
    \/ \E id \in DOMAIN handles, how \in {"canceled", "deadline"} : CtxDone(id, how)
    \/ Tick

Spec == Init /\ [][Next]_vars

\* ------------------------------------------------------------------ concurrent calls
\* Two goroutines call Run or RunWithPipes of one Firejail or SandboxExec
\* Runner at the same time.  Each call is taken one memory access at a time
\* through the statements that process the option lists and render the
\* profile; nothing in the Runner orders the accesses of the two calls.

\* The lists in the order the calls process them.
ListFields == <<"AllowReadFolders", "AllowWriteFolders", "AllowReadFiles", "AllowWriteFiles">>

\* The position after list number field is done.
AfterField(call) ==
    IF call.field < Len(ListFields)
    THEN [call EXCEPT !.pc = "load", !.field = call.field + 1, !.local = <<>>]
    ELSE [call EXCEPT !.pc = "render", !.field = 0, !.local = <<>>]

\* The call passes its entry check (its context is live).
Conc_Enter(g, params) ==
    /\ runner.type \in {"firejail", "sandbox-exec"}
    /\ inflight[g].pc = "idle"
    /\ inflight' = [inflight EXCEPT ![g] = [IdleCall EXCEPT !.pc = "load", !.field = 1,
                                                            !.params = params]]
    /\ UNCHANGED <<host, runner, layers, tempFiles, pipes, containers, handles, nCalls,
                   now, cleanupFaults, last>>

\* if len(r.options.X) > 0 { ... ProcessTemplateListFlexible(r.options.X, params)
\* : the call reads list X of the Runner.
Conc_Load(g) ==
    /\ inflight[g].pc = "load"
    /\ LET list == runner.options[ListFields[inflight[g].field]]
       IN  inflight' = [inflight EXCEPT ![g] =
                          IF Len(list) > 0
                          THEN [inflight[g] EXCEPT !.pc = "store", !.local = list]
                          ELSE AfterField(inflight[g])]
    /\ UNCHANGED <<host, runner, layers, tempFiles, pipes, containers, handles, nCalls,
                   now, cleanupFaults, last>>

\* r.options.X = <the processed list>: the call writes list X of the Runner.
Conc_Store(g) ==
    /\ inflight[g].pc = "store"
    /\ runner' = [runner EXCEPT !.options[ListFields[inflight[g].field]] =
                     ProcessTemplateListFlexible(inflight[g].local, inflight[g].params)]
    /\ inflight' = [inflight EXCEPT ![g] = AfterField(inflight[g])]
    /\ UNCHANGED <<host, layers, tempFiles, pipes, containers, handles, nCalls,
                   now, cleanupFaults, last>>

\* r.profileTpl.Execute(&profileBuf, r.options): the call reads every option
\* of the Runner and has its profile.
Conc_Render(g) ==
    /\ inflight[g].pc = "render"
    /\ inflight' = [inflight EXCEPT ![g] = [inflight[g] EXCEPT
                                              !.pc = "done",
                                              !.artifact = RenderProfile(runner.options)]]
    /\ UNCHANGED <<host, runner, layers, tempFiles, pipes, containers, handles, nCalls,
                   now, cleanupFaults, last>>

\* A Firejail or SandboxExec Runner as New returns it on its system.
InitConcurrent ==
    /\ host \in Hosts
    /\ \E options \in ProfileOptionsSet :
          runner = [type |-> IF host.goos = "linux" THEN "firejail" ELSE "sandbox-exec",
                    rev |-> "", options |-> options, given |-> options]
    /\ layers = <<>>
    /\ tempFiles = {}
    /\ pipes = {}
    /\ containers = {}
    /\ handles = <<>>
    /\ nCalls = 0
    /\ now = 0
    /\ cleanupFaults = FALSE
    /\ inflight = [g \in Goroutines |-> IdleCall]
    /\ last = [NoOp EXCEPT !.op = "New"]

NextConcurrent ==
    \/ \E g \in Goroutines, params \in ParamsFor("live") : Conc_Enter(g, params)
    \/ \E g \in Goroutines : Conc_Load(g)
    \/ \E g \in Goroutines : Conc_Store(g)
    \/ \E g \in Goroutines : Conc_Render(g)

SpecConcurrent == InitConcurrent /\ [][NextConcurrent]_vars

\* ------------------------------------------------------------------ compilation
\* The compilation of the rule list taken by itself, for a Landrun Runner
\* with any combination of options.
Landrun_buildLandlockRules(params) ==
    /\ runner.type = "landrun"
    /\ last' = [NoOp EXCEPT !.op = "buildLandlockRules", !.params = params,
                  !.rules = buildLandlockRules(runner.options, params),
                  !.config = LandrunConfig(runner.rev, runner.options)]
    /\ UNCHANGED <<host, runner, layers, tempFiles, pipes, containers, handles, nCalls,
                   now, cleanupFaults, inflight>>

\* A Landrun Runner as NewLandrun returns it, for every value of the options.
InitCompile ==
    /\ host = [goos |-> "linux", kernelABI |-> -1]
    /\ \E rev \in LandrunRevs, options \in AllLandrunOptions :
          runner = [type |-> "landrun", rev |-> rev, options |-> options,
                    given |-> options]
    /\ layers = <<>>
    /\ tempFiles = {}
    /\ pipes = {}
    /\ containers = {}
    /\ handles = <<>>
    /\ nCalls = 0
    /\ now = 0
    /\ cleanupFaults = FALSE
    /\ inflight = [g \in Goroutines |-> IdleCall]
    /\ last = [NoOp EXCEPT !.op = "NewLandrun"]

NextCompile == \E params \in ParamsSet : Landrun_buildLandlockRules(params)

SpecCompile == InitCompile /\ [][NextCompile]_vars

\* The same program on a machine where removing a temp file and tearing down
\* a container can fail.
InitFaults ==
    /\ host \in Hosts
    /\ runner = NoRunner
    /\ layers = <<>>
    /\ tempFiles = {}
    /\ pipes = {}
    /\ containers = {}
    /\ handles = <<>>
    /\ nCalls = 0
    /\ now = 0
    /\ cleanupFaults = TRUE
    /\ inflight = [g \in Goroutines |-> IdleCall]
    /\ last = NoOp

SpecFaults == InitFaults /\ [][Next]_vars

\* ------------------------------------------------------------------ construction from generic options
\* The first thing a process does is to construct a Runner from generic
\* options; a Docker Runner then runs commands in batch and interactive
\* mode, with every setup step succeeding.
NextOptions ==
    \/ /\ runner = NoRunner /\ last.op = "none"
       /\ \E t \in Backends : \E options \in GenericOptions(t) : NewBackend(t, options)
    \/ /\ runner.type = "docker" /\ nCalls < MaxCalls
       /\ \E single \in BOOLEAN : Docker_Run("live", single, "none", Quiet, TRUE, FALSE)
    \/ /\ runner.type = "docker" /\ nCalls < MaxCalls
       /\ Docker_RunWithPipes("live", "started", "none", TRUE)

SpecOptions == Init /\ [][NextOptions]_vars

\* ------------------------------------------------------------------ batch executions
\* Construction and the batch Runs of every backend, with the execution each
\* Run draws (what the command does, what the context does meanwhile) noted
\* in last.x next to the call's result.
NextBatch ==
    \/ /\ runner = NoRunner
       /\ \E t \in Types : \E options \in OptionsFor(t) : \E toolOk \in BOOLEAN :
             New(t, options, toolOk)
    \/ /\ runner = NoRunner
       /\ \E rev \in LandrunRevs, options \in LandrunOptionsSet :
          \E abi \in KernelABIs(host.goos) :
             NewLandrun(rev, options, abi)
    \/ /\ runner.type = "landrun" /\ nCalls < MaxCalls
       /\ \E c \in CtxStates : \E params \in ParamsFor(c) :
          \E x \in ExecutionsFor(c, "none", BatchExecutions) :
             Landrun_Run(c, params, x.b, x.fire, TRUE)
    \/ /\ runner.type = "exec" /\ nCalls < MaxCalls
       /\ \E c \in CtxStates : \E single \in FlagsFor(c) : \E tmpfile \in FlagsFor(c) :
          \E failAt \in StepsFor(c, ExecSteps) :
          \E x \in ExecutionsFor(c, failAt, BatchExecutions) :
             Exec_Run(c, single, tmpfile, failAt, x, TRUE, TRUE)
    \/ /\ runner.type = "firejail" /\ nCalls < MaxCalls
       /\ \E c \in CtxStates : \E params \in ParamsFor(c) : \E single \in FlagsFor(c) :
          \E failAt \in StepsFor(c, ProfileRunSteps) :
          \E x \in ExecutionsFor(c, failAt, BatchExecutions) :
             Firejail_Run(c, params, single, failAt, x, TRUE, TRUE)
    \/ /\ runner.type = "sandbox-exec" /\ nCalls < MaxCalls
       /\ \E c \in CtxStates : \E params \in ParamsFor(c) : \E single \in FlagsFor(c) :
          \E failAt \in StepsFor(c, ProfileRunSteps) :
          \E x \in ExecutionsFor(c, failAt, BatchExecutions) :
             SandboxExec_Run(c, params, single, failAt, x, TRUE, TRUE)
    \/ /\ runner.type = "docker" /\ nCalls < MaxCalls
       /\ \E c \in CtxStates, single \in BOOLEAN :
          \E failAt \in (IF single THEN {"none"} ELSE DockerScriptSteps \cup {"none"}) :
          \E x \in ExecutionsFor(c, failAt, BatchExecutions) :
             Docker_Run(c, single, failAt, x, TRUE, TRUE)

SpecBatch == Init /\ [][NextBatch]_vars

\* ------------------------------------------------------------------ concurrent containers
\* Docker.RunWithPipes called by several goroutines at the same time, step
\* by step: pc is the position of the call, local the container name it
\* holds.  Nothing orders the calls' readings of the clock against its ticks.

\* containerName := fmt.Sprintf("go-restricted-runner-%d", time.Now().UnixNano())
Docker_containerName(g) ==
    /\ runner.type = "docker"
    /\ inflight[g].pc \in {"idle", "failed", "done"}
    /\ nCalls < MaxCalls
    /\ nCalls' = nCalls + 1
    /\ inflight' = [inflight EXCEPT ![g] = [IdleCall EXCEPT !.pc = "named",
                                                            !.local = ContainerName(now)]]
    /\ last' = [NoOp EXCEPT !.op = "containerName", !.call = g]
    /\ UNCHANGED <<host, runner, layers, tempFiles, pipes, containers, handles, now,
                   cleanupFaults>>

\* createCmd.CombinedOutput() of "docker run --name N -d IMAGE sleep
\* infinity": the daemon refuses a name that a container already has, and
\* RunWithPipes returns the error.
Docker_createCmd(g) ==
    /\ inflight[g].pc = "named"
    /\ LET containerName == inflight[g].local
           conflict == containerName \in containers
       IN  /\ inflight' = [inflight EXCEPT ![g].pc = IF conflict THEN "failed" ELSE "owner"]
           /\ containers' = containers \cup {containerName}
           /\ last' = [NoOp EXCEPT !.op = "createCmd", !.call = g,
                         !.created = IF conflict THEN {} ELSE {containerName},
                         !.failAt = IF conflict THEN "createContainer" ELSE "none",
                         !.err = IF conflict
                                 THEN Errorf("failed to create container", ErrExitStatus)
                                 ELSE Nil]
    /\ UNCHANGED <<host, runner, layers, tempFiles, pipes, handles, nCalls, now,
                   cleanupFaults>>

\* The completion function of the call: "docker rm -f" of its container.
Docker_waitFunc(g) ==
    /\ inflight[g].pc = "owner"
    /\ inflight' = [inflight EXCEPT ![g].pc = "done"]
    /\ containers' = containers \ {inflight[g].local}
    /\ last' = [NoOp EXCEPT !.op = "waitFunc", !.call = g]
    /\ UNCHANGED <<host, runner, layers, tempFiles, pipes, handles, nCalls, now,
                   cleanupFaults>>

\* A Docker Runner as New returns it.
InitContainers ==
    /\ host \in Hosts
    /\ \E options \in DockerOptionsSet :
          runner = [type |-> "docker", rev |-> "", options |-> options, given |-> options]
    /\ layers = <<>>
    /\ tempFiles = {}
    /\ pipes = {}
    /\ containers = {}
    /\ handles = <<>>
    /\ nCalls = 0
    /\ now = 0
    /\ cleanupFaults = FALSE
    /\ inflight = [g \in Goroutines |-> IdleCall]
    /\ last = [NoOp EXCEPT !.op = "New"]

NextContainers ==
    \/ \E g \in Goroutines : Docker_containerName(g)
    \/ \E g \in Goroutines : Docker_createCmd(g)
    \/ \E g \in Goroutines : Docker_waitFunc(g)
    \/ Tick

SpecContainers == InitContainers /\ [][NextContainers]_vars

\* ------------------------------------------------------------------ properties
\* The paths, rights and ports the properties look at.
ProbePaths == {PDev, PTmp, PTmpA, PTmpA \o <<"new">>, PData, PData \o <<"new">>,
               PUsr, <<"usr", "bin", "sh">>, PSrv, <<"home">>}
ProbePorts == {8080, 443, 22}

\* The latest operation was a Landrun call that got its rule list enforced
\* as a new layer.
LandrunApplied ==
    /\ runner.type = "landrun"
    /\ last.op \in {"Run", "RunWithPipes"}
    /\ last.invoked
    /\ ~ErrorsIs(last.err, <<Msg("failed to apply landlock restrictions")>>)
    /\ Len(layers) > 0
    /\ \E v \in {1, 4, 6} : layers[Len(layers)] = Layer(v, last.rules)

\* The path lists of the Landrun runner as a call with params processes them.
Processed(list, params) ==
    IF Len(list) > 0 THEN ProcessTemplateListFlexible(list, params) ELSE list

\* C1: across Landrun calls the restrictions in force only grow: every step
\* keeps the layers already in force and allows nothing that was denied
\* before it, and a call that applies its rules adds exactly the layer of its
\* own rule list on top of the earlier ones.
C1_RestrictionsOnlyGrow ==
    [][ /\ IsPrefix(layers, layers')
        /\ \A p \in ProbePaths, right \in AccessFSAll :
              AllowedFS(layers', p, right) => AllowedFS(layers, p, right)
        /\ \A port \in ProbePorts :
              /\ AllowedBind(layers', port) => AllowedBind(layers, port)
              /\ AllowedConnect(layers', port) => AllowedConnect(layers, port)
        /\ layers' # layers =>
              \E v \in {1, 4, 6} : layers' = Append(layers, Layer(v, last'.rules))
      ]_vars

\* C1 witness: a second applying Run has stacked a different restriction set
\* on the one of the first call.
C1_Witness ==
    /\ LandrunApplied
    /\ runner.rev = "landrun.go"
    /\ last.op = "Run"
    /\ Len(layers) = 2
    /\ layers[1] # layers[2]

\* C2: the capability probe of the Landrun runner never applies a
\* restriction: a probe step leaves the layers in force as they were.
C2_ProbeAppliesNoRestriction ==
    [][ ( \/ \E present \in BOOLEAN : Landrun_CheckImplicitRequirements(present)
          \/ Landrun_CheckImplicitRequirements_RestrictPaths )
        => layers' = layers ]_vars

\* C3: once a Landrun call has applied its compiled rule set, no file can be
\* created under any path its read-only list grants.
C3_ReadOnlyDeniesCreation ==
    LandrunApplied =>
      \A params \in ParamsSet :
        buildLandlockRules(runner.options, params) = last.rules =>
          \A P \in Range(Processed(runner.options.AllowReadFolders, params)) :
            ~AllowedFS(layers, P \o <<"new">>, "make_reg")

\* C4: the compiled rule set of a Landrun runner never grants execute access
\* to a path that its options list only as read-only or only as read-write.
C4_NoExecuteForReadOnlyOrReadWrite ==
    runner.type = "landrun" =>
      \A params \in ParamsSet :
        LET o     == runner.options
            rules == buildLandlockRules(o, params)
            exec  == Range(Processed(o.AllowReadExecFolders, params))
                       \cup Range(Processed(o.AllowWriteExecFolders, params))
            plain == Range(Processed(o.AllowReadFolders, params))
                       \cup Range(Processed(o.AllowWriteFolders, params))
        IN  \A P \in plain \ exec :
              ~\E i \in DOMAIN rules :
                  /\ rules[i].kind = "fs"
                  /\ P \in Range(rules[i].paths)
                  /\ "execute" \in rules[i].access

\* C5: a Landrun call whose compiled rule list is empty does not invoke the
\* application step and leaves the layers in force unchanged.
C5_EmptyRulesSkipRestrict ==
    [][ ( /\ runner.type = "landrun"
          /\ nCalls' = nCalls + 1
          /\ last'.rules = <<>> )
        => (layers' = layers /\ ~last'.invoked) ]_vars

\* C5 witness: a Landrun Run with a live context compiled no rule and ran its
\* command on a kernel that has Landlock.
C5_Witness ==
    /\ runner.type = "landrun"
    /\ runner.options.UnrestrictedFilesystem
    /\ host.kernelABI >= 1
    /\ last.op = "Run" /\ last.ctx = "live"
    /\ last.rules = <<>>
    /\ last.started

\* C6: a call made with an already-cancelled context fails with the
\* context's error and does nothing: no process, no temp file or container,
\* no restriction.
C6_CancelledCallDoesNothing ==
    (last.op \in {"Run", "RunWithPipes"} /\ last.ctx # "live") =>
      /\ ErrorsIs(last.err, CtxErr(last.ctx))
      /\ last.created = {}
      /\ ~last.started
      /\ ~last.invoked

\* C7: when the context of an interactive call fired after the process had
\* started and the process was killed, the completion function returns the
\* context's error: context.Canceled for a cancel, context.DeadlineExceeded
\* for a deadline.
C7_KilledSurfacesContextError ==
    ( /\ last.op = "wait"
      /\ last.call \in DOMAIN handles
      /\ handles[last.call].waits = 1
      /\ handles[last.call].proc = "killed" )
    => ErrorsIs(last.err, CtxErr(handles[last.call].ctx))

\* C8: once the completion function of an interactive call has returned, no
\* temp file made by that call remains, however the process ended.
C8_NoTempFileAfterWait ==
    \A id \in DOMAIN handles :
      handles[id].waits > 0 => ~\E f \in tempFiles : f.call = id

\* C8 witness: the completion function of a Firejail call whose process was
\* killed by its context has returned.
C8_Witness ==
    \E id \in DOMAIN handles :
      /\ handles[id].backend = "firejail"
      /\ handles[id].files # {}
      /\ handles[id].proc = "killed"
      /\ handles[id].waits > 0

\* C9: a RunWithPipes that fails during setup returns with nothing left
\* behind: no pipe of the call is open, no temp file of the call exists, and
\* no process was started.
C9_FailedSetupLeavesNothing ==
    (last.op = "RunWithPipes" /\ last.err # Nil) =>
      /\ ~\E e \in pipes : e.call = last.call
      /\ ~\E f \in tempFiles : f.call = last.call
      /\ ~last.started
      /\ last.call \notin DOMAIN handles

\* C9 witness: a Firejail RunWithPipes failed at its third pipe, after it had
\* written the profile and made two pipes.
C9_Witness ==
    /\ runner.type = "firejail"
    /\ last.op = "RunWithPipes"
    /\ last.failAt = "stderr"
    /\ last.created # {}
    /\ last.err # Nil

\* C10: every container made by Docker RunWithPipes is gone once its call has
\* ended: a container that exists belongs to a handle whose completion
\* function has not returned yet.
C10_ContainersTornDown ==
    \A n \in containers :
      \E id \in DOMAIN handles : n \in handles[id].containers /\ handles[id].waits = 0

\* The result batch Run number id of the runner hands back on execution x
\* when every removal it makes succeeds.
BatchResult(id, ctxAtEntry, single, tmpfile, failAt, x) ==
    CASE runner.type = "exec" ->
           ExecRun(ctxAtEntry, id, single, tmpfile, failAt, x, TRUE)
      [] runner.type = "docker" ->
           DockerRun(ctxAtEntry, id, single, failAt, x, TRUE)
      [] OTHER ->
           ProfileRun(id, runner.options, single, failAt, x, TRUE, runner.type = "firejail")

\* C11: a cleanup failure never replaces the result of a call.  The
\* completion function returns what the process's Wait returned (nil
\* included) although the temp file or the container could not be removed,
\* and a batch Run returns an output and error that the same call returns
\* when all its removals succeed.
C11_CleanupNeverOverridesResult ==
    /\ ( /\ last.op = "wait"
          /\ last.call \in DOMAIN handles
          /\ handles[last.call].waits = 1 )
       => last.err = CmdWait(handles[last.call].proc, handles[last.call].ctx)
    /\ ( /\ last.op = "Run"
          /\ runner.type \in {"exec", "docker", "firejail", "sandbox-exec"}
          /\ (last.ctx = "live" \/ runner.type = "docker") )
       => \E single \in BOOLEAN, tmpfile \in BOOLEAN :
          \E x \in ExecutionsFor(last.ctx, last.failAt, Executions) :
             LET r == BatchResult(last.call, last.ctx, single, tmpfile, last.failAt, x)
             IN  r.out = last.out /\ r.err = last.err /\ r.created = last.created

\* C11 witness: a completion function returned nil for a process that had
\* exited successfully although the container of its call could not be
\* removed.
C11_Witness ==
    /\ last.op = "wait" /\ last.err = Nil
    /\ last.call \in DOMAIN handles
    /\ handles[last.call].waits = 1
    /\ handles[last.call].proc = "exited0"
    /\ handles[last.call].containers # {}
    /\ handles[last.call].containers \subseteq containers

\* C12: a Runner keeps the options it was constructed with: whenever a Run
\* or RunWithPipes call has returned, the restriction lists the Runner stores
\* equal their values at construction time.
C12_OptionsAsConstructed ==
    (runner.type # "none" /\ last.op \in {"Run", "RunWithPipes"}) =>
      runner.options = runner.given

\* The policy artifact of the latest call when it is built from the options
\* the Runner was constructed with and the call's own substitution context.
FreshArtifact ==
    CASE runner.type = "landrun" ->
           buildLandlockRules(runner.given, last.params)
      [] OTHER ->
           RenderProfile(ProcessOptions(runner.given, last.params,
                                        runner.type = "sandbox-exec" /\ last.op = "Run"))

\* C13: the policy artifact of every call is built from the Runner's option
\* lists as constructed and that call's substitution context: after an
\* earlier call with other values, the placeholders of the later call's rule
\* list or profile are resolved with the later call's values.
C13_ArtifactBuiltFresh ==
    ( /\ last.op \in {"Run", "RunWithPipes"} /\ last.ctx = "live"
      /\ HasPlaceholder(runner.given) ) =>
      CASE runner.type = "landrun" -> last.rules = FreshArtifact
        [] runner.type \in {"firejail", "sandbox-exec"} ->
             \A f \in last.created : f.kind = "profile" => f.content = FreshArtifact
        [] OTHER -> TRUE

\* The fields of the Runner that the next step of goroutine g touches.
NextAccess(g) ==
    LET call == inflight[g] IN
    CASE call.pc = "load"   -> [fields |-> {ListFields[call.field]}, write |-> FALSE]
      [] call.pc = "store"  -> [fields |-> {ListFields[call.field]}, write |-> TRUE]
      [] call.pc = "render" -> [fields |-> Range(ListFields) \cup {"AllowNetworking"},
                                write |-> FALSE]
      [] OTHER              -> [fields |-> {}, write |-> FALSE]

\* C14: two concurrent calls on one Runner share no mutable state: at no
\* point of any interleaving is one call about to write a field of the Runner
\* that the other call is about to read or write, and the profile a call has
\* rendered is the one of the construction-time options and its own
\* substitution context.
C14_ConcurrentCallsShareNothing ==
    /\ \A g \in Goroutines : \A h \in Goroutines \ {g} :
          NextAccess(g).write => NextAccess(g).fields \cap NextAccess(h).fields = {}
    /\ \A g \in Goroutines :
          inflight[g].pc = "done" =>
            inflight[g].artifact =
              RenderProfile(ProcessOptions(runner.given, inflight[g].params, FALSE))

\* C15: compilation is idempotent.  When two calls that follow each other on
\* one Runner, Run or RunWithPipes in any mix, have the same substitution
\* context, they compile the same artifact: the same rule list for Landrun,
\* the same profile text for Firejail and SandboxExec.
C15_CompilationIdempotent ==
    [][ ( /\ nCalls' = nCalls + 1
          /\ last.op \in {"Run", "RunWithPipes"} /\ last.ctx = "live"
          /\ last'.op \in {"Run", "RunWithPipes"} /\ last'.ctx = "live"
          /\ last'.params = last.params )
        => /\ runner.type = "landrun" => last'.rules = last.rules
           /\ \A f \in last.created : \A g \in last'.created :
                 (f.kind = "profile" /\ g.kind = "profile") => g.content = f.content
      ]_vars

\* The options of the Runner ask for network rules: a bind or connect port
\* is listed and networking is not unrestricted.
WantsNetworkRules(options) ==
    /\ ~options.AllowNetworking
    /\ (Len(options.AllowBindTCP) > 0 \/ Len(options.AllowConnectTCP) > 0)

\* C16: when the options list a bind or connect port and networking is not
\* unrestricted, a Landrun call applies its rules with a configuration whose
\* version is at least the first one that handles network rules (V4); when
\* the application succeeds without best effort the layer in force has that
\* version at least and enforces the listed ports.
C16_NetworkRulesGetNetworkVersion ==
    ( /\ runner.type = "landrun"
      /\ last.op \in {"Run", "RunWithPipes"} /\ last.ctx = "live"
      /\ WantsNetworkRules(runner.options) )
    => /\ last.invoked
       /\ last.config.version >= LandlockV4.version
       /\ (LandrunApplied /\ ~last.config.bestEffort) =>
             /\ layers[Len(layers)].version >= LandlockV4.version
             /\ layers[Len(layers)].handledNet

\* C16 witness: a Landrun call with a listed bind port has applied its rules
\* on a kernel that handles network rules.
C16_Witness ==
    /\ LandrunApplied
    /\ runner.rev = "landrun.go"
    /\ Len(runner.options.AllowBindTCP) > 0
    /\ layers[Len(layers)].bind = {8080}
    /\ last.config = LandlockV4

\* C17: the version a Landrun call applies its rules with is the smallest
\* one that supports every rule type of its compiled rule list: the first
\* network-capable version (V4) exactly when the list has a network rule, the
\* first filesystem version (V1) otherwise.
C17_SmallestSufficientVersion ==
    ( /\ runner.type = "landrun"
      /\ last.op \in {"Run", "RunWithPipes"}
      /\ last.invoked )
    => last.config.version =
         IF \E i \in DOMAIN last.rules : IsNetRule(last.rules[i])
         THEN LandlockV4.version ELSE LandlockV1.version

\* A rule list has a rule of a type that a kernel of Landlock ABI abi does not
\* support: a network rule below ABI 4, any rule without Landlock.
Unsupported(rules, abi) ==
    \E i \in DOMAIN rules :
      IF IsNetRule(rules[i]) THEN abi < LandlockV4.version ELSE abi < LandlockV1.version

\* The error of a failed application step.
ErrApply == <<Msg("failed to apply landlock restrictions")>>

\* C18: when the host does not support a rule type of the compiled list, a
\* Landrun call with best effort does not fail for lack of kernel support:
\* the application step passes (unless a path cannot be opened), what the
\* kernel supports is enforced and the unsupported rules are left out.
\* Without best effort the call fails at the application step with an
\* error and starts no process.
C18_BestEffortNeverFatal ==
    ( /\ runner.type = "landrun"
      /\ last.op \in {"Run", "RunWithPipes"} /\ last.ctx = "live"
      /\ last.invoked
      /\ Unsupported(last.rules, host.kernelABI) )
    => IF runner.options.BestEffort
       THEN /\ ~ErrorsIs(last.err, <<Msg("missing kernel Landlock support")>>)
            /\ ~PathMissing(last.rules) => ~ErrorsIs(last.err, ErrApply)
            /\ (host.kernelABI >= 1 /\ ~PathMissing(last.rules)) =>
                  /\ LandrunApplied
                  /\ layers[Len(layers)].version = host.kernelABI
                  /\ layers[Len(layers)].bind = {}
                  /\ layers[Len(layers)].connect = {}
       ELSE /\ last.err = Errorf("failed to apply landlock restrictions",
                                 <<Msg("missing kernel Landlock support")>>)
            /\ ~last.started

\* C18 witness: a best-effort Landrun call with a listed bind port on a
\* kernel that has filesystem rules only got past the application step with
\* its filesystem rules enforced.
C18_Witness ==
    /\ LandrunApplied
    /\ runner.options.BestEffort
    /\ Len(runner.options.AllowBindTCP) > 0
    /\ host.kernelABI = 1
    /\ ~ErrorsIs(last.err, ErrApply)

\* C19: with UnrestrictedFilesystem set, the compiled rule list has no
\* filesystem rule, whatever the four path lists and the substitution context
\* hold: no rule names a path of the lists, resolved or not.
C19_UnrestrictedFilesystemNoPathRule ==
    ( /\ last.op = "buildLandlockRules"
      /\ runner.options.UnrestrictedFilesystem )
    => /\ \A i \in DOMAIN last.rules : last.rules[i].kind # "fs"
       /\ last.rules = buildLandlockRules(
              [ZeroLandrunOptions EXCEPT
                 !.UnrestrictedFilesystem = TRUE,
                 !.AllowNetworking = runner.options.AllowNetworking,
                 !.AllowBindTCP = runner.options.AllowBindTCP,
                 !.AllowConnectTCP = runner.options.AllowConnectTCP], NoParams)

\* C19 witness: a rule list was compiled for options that set
\* UnrestrictedFilesystem and all four path lists, one of them with a
\* placeholder resolved by the call, and a port; the list holds the port
\* rule.
C19_Witness ==
    /\ last.op = "buildLandlockRules"
    /\ runner.options.UnrestrictedFilesystem
    /\ runner.options.AllowReadFolders = <<PTpl>>
    /\ runner.options.AllowReadExecFolders # <<>>
    /\ runner.options.AllowWriteFolders # <<>>
    /\ runner.options.AllowWriteExecFolders # <<>>
    /\ last.params = [workdir |-> PData]
    /\ last.rules = <<BindTCP(8080)>>

BatchExecuted ==
    /\ last.op = "Run"
    /\ last.executed
    /\ last.x.fire.hit \in {"none", "kill", "late"}

\* The command of the latest batch Run could be started: the executable
\* exists and the Landlock domain in force allows executing it.
Startable == last.x.b.start /\ CanExec(layers)

\* A text is another one with the whitespace around it taken off.
IsTrimOf(t, s) ==
    /\ t # <<>> => ~IsSpace(t[1]) /\ ~IsSpace(t[Len(t)])
    /\ \E i \in 1..(Len(s) + 1) :
          /\ i + Len(t) - 1 <= Len(s)
          /\ t = SubSeq(s, i, i + Len(t) - 1)
          /\ \A k \in 1..Len(s) : (k < i \/ k > i + Len(t) - 1) => IsSpace(s[k])

DocumentedTypes == {"exec", "sandbox-exec", "firejail", "docker", "landrun"}

\* An error that a capability probe returns on some host.
IsCapabilityError(err) ==
    /\ err # Nil
    /\ \E t \in Types, goos \in {"darwin", "linux"}, toolOk \in BOOLEAN :
          err = CheckImplicitRequirements(t, goos, toolOk)

\* An error that New returns before it gets to the probe: an unknown
\* identifier or options a constructor rejects.
IsConfigurationError(err) ==
    /\ err # Nil
    /\ \/ err = <<Msg("unknown runner type")>>
       \/ \E t \in Types : \E options \in OptionsFor(t) : err = Construct(t, options)

C24_EveryDocumentedTypeConstructed ==
    [][ (runner = NoRunner /\ last'.op = "New") =>
        \A t \in Types : \A options \in OptionsFor(t) : \A toolOk \in BOOLEAN :
          New(t, options, toolOk) =>
            /\ (last'.err = <<Msg("unknown runner type")>>) = (t \notin DocumentedTypes)
            /\ (t \in DocumentedTypes /\ last'.err = Nil) => runner'.type = t
      ]_vars

Restrictions(args) ==
    { args[i] : i \in { j \in DOMAIN args :
                          args[j].flag \notin {"docker run", "run", "-d", "--name", "-e"} } }

\* C26: every restriction that batch Run of a Docker Runner puts on its
\* container (network, user, working directory, memory limits and
\* swappiness, added and dropped capabilities, DNS settings, platform, extra
\* run options, mounts) is also on the command line with which RunWithPipes
\* creates its container.
C26_InteractiveContainerFullyRestricted ==
    ( /\ runner.type = "docker"
      /\ last.op = "RunWithPipes" /\ last.ctx = "live" )
    => Restrictions(GetBaseDockerCommand(runner.options, <<>>))
         \subseteq Restrictions(last.args)

\* The keys of the generic options that name a field of the backend and hold
\* a value of another type than the field's.
Mismatched(t, options) ==
    {k \in DOMAIN options \cap DOMAIN FieldsOf(t) : ~Fits(options[k], FieldsOf(t)[k])}

\* An error names the field of key k.
NamesField(err, k) ==
    \E i \in DOMAIN err :
      \/ err[i].text = <<k>>
      \/ k = "image" /\ err[i].msg = "docker runner requires 'image' option"

\* C27: for every backend, generic options in which a key of the backend
\* holds a value of the wrong type (a non-boolean allow_networking, a list
\* with an entry of the wrong type) make the constructor fail, with no
\* Runner and an error that names a mistyped field (or, for Docker options
\* without an image, the missing image).
C27_TypeMismatchRejected ==
    ( /\ last.op = "NewBackend"
      /\ Mismatched(last.type, last.generic) # {} )
    => /\ runner = NoRunner
       /\ \/ \E k \in Mismatched(last.type, last.generic) : NamesField(last.err, k)
          \/ /\ last.type = "docker" /\ "image" \notin DOMAIN last.generic
             /\ NamesField(last.err, "image")

\* C28: when a batch Run has returned, no temp file or directory made by that
\* call remains, whether the call succeeded, its command failed, a write,
\* sync or chmod failed after the file was created, or the context was found
\* done after creation.
C28_NoTempFileAfterRun ==
    last.op = "Run" => ~\E f \in tempFiles : f.call = last.call

\* C28 witness: a Docker Run whose script file was created and then could
\* not be made executable has returned its error.
C28_Witness ==
    /\ runner.type = "docker"
    /\ last.op = "Run"
    /\ last.failAt = "chmod"
    /\ last.created # {}
    /\ last.err # Nil

\* C29: the compiled rule list of a Landrun Runner is empty exactly when its
\* options set both UnrestrictedFilesystem and AllowNetworking.
C29_EmptyRulesIffUnrestricted ==
    last.op = "buildLandlockRules"
    => ( last.rules = <<>>
         <=> ( /\ runner.options.UnrestrictedFilesystem
               /\ runner.options.AllowNetworking ) )

\* C30: while a Docker RunWithPipes call owns a container, no other call in
\* flight holds the same container name: its creation cannot collide with
\* the owner's container and its cleanup cannot remove it.
C30_DistinctContainerNames ==
    \A g \in Goroutines : \A h \in Goroutines \ {g} :
      ( /\ inflight[h].pc = "owner"
        /\ inflight[g].pc \in {"named", "owner", "failed"} )
      => inflight[g].local # inflight[h].local

=============================================================================
